---- MODULE Spec2Model ----
(***************************************************************************)
(* cocoman / cocoregman: regression orchestration for cocotb testbenches.  *)
(*                                                                         *)
(* The module models the core package: the Filtering criteria and their    *)
(* get_valid selection, Orchestrator.build_plan, Orchestrator.run_regression*)
(* and Orchestrator.print_regression, together with the two collaborators  *)
(* they call (test discovery on sys.path, the cocotb runner).              *)
(*                                                                         *)
(* Text that the program matches against regular expressions (tags, test   *)
(* names) is a sequence of characters; a regular expression is a sequence  *)
(* of atoms.  Names that are only compared for equality (testbench names,  *)
(* simulator identifiers, keyword names) are TLA+ strings.                 *)
(***************************************************************************)
EXTENDS Naturals, Sequences, FiniteSets, TLC

VARIABLES
    rbooks,           \* the loaded Runbook objects, by object identity
    sys_path,         \* sys.path: the process-wide module search registry
    ret,              \* a build_plan call under test: its arguments and outcome
    regression_plan,  \* Orchestrator.regression_plan
    pc,               \* position of the Orchestrator's caller
    n_times,          \* argument of the last run_regression / print_regression
    idx,              \* run_regression: index of the plan entry of the loop
    previous_rb,      \* run_regression: local previous_rb
    sim,              \* run_regression: local sim (the runner handle)
    backend,          \* every call made on a runner handle, in order
    console,          \* what print_regression reported, in order
    raised,           \* the exception that ended the caller, if any
    sel,              \* a Filtering.get_valid call chain under test
    ld,               \* a Runbook.load_yaml call: its document and progress
    proc              \* the process: what main printed and how it ended

vars == <<rbooks, sys_path, ret, regression_plan, pc, n_times, idx,
          previous_rb, sim, backend, console, raised, sel, ld, proc>>

(***************************************************************************)
(* Bounds of the model.                                                    *)
(***************************************************************************)
\* total number of entries over the five lists of a Filtering object handed
\* to a single build_plan call, or to a get_valid call under test
MaxCriteria == 3
\* length of the dataset handed to a get_valid call under test
MaxDataset == 2
\* number of entries the accumulated regression plan may reach
MaxPlan == 3
\* largest repetition count passed to run_regression / print_regression
MaxTimes == 3
\* number of testbench entries of a document handed to load_yaml
MaxTbs == 2

(***************************************************************************)
(* Text and regular expressions.                                           *)
(***************************************************************************)
None == "None"

\* the texts the runbooks and the discovered test modules use
T_a == <<"a">>
T_ab == <<"a", "b">>
T_b == <<"b">>
Texts == {T_a, T_ab, T_b}

\* One atom of a regular expression: a literal character or "." (any
\* character), possibly starred.
Atom(c, star) == [c |-> c, star |-> star]
R_a == <<Atom("a", FALSE)>>                         \* a
R_ab == <<Atom("a", FALSE), Atom("b", FALSE)>>      \* ab
R_b == <<Atom("b", FALSE)>>                         \* b
R_a_any == <<Atom("a", FALSE), Atom(".", TRUE)>>    \* a.*
Patterns == {R_a, R_b, R_a_any}

\* The backtracking matcher of the re module, from atom i of rgx and
\* position j of text.  With full, the match must end at the end of text
\* (re.fullmatch); without, it may end anywhere (re.match).
RECURSIVE re_match_here(_, _, _, _, _)
re_match_here(rgx, i, text, j, full) ==
    IF i > Len(rgx)
    THEN (IF full THEN j > Len(text) ELSE TRUE)
    ELSE LET at == rgx[i]
             hit == j <= Len(text) /\ (at.c = "." \/ at.c = text[j])
         IN  IF at.star
             THEN \/ (hit /\ re_match_here(rgx, i, text, j + 1, full))
                  \/ re_match_here(rgx, i + 1, text, j, full)
             ELSE hit /\ re_match_here(rgx, i + 1, text, j + 1, full)

\* re.match: the pattern matches a prefix of text
re_match(rgx, text) == re_match_here(rgx, 1, text, 1, FALSE)

\* re.fullmatch: the pattern matches the whole of text (a Match object is
\* truthy, None is falsy)
re_fullmatch(rgx, text) == re_match_here(rgx, 1, text, 1, TRUE)

\* _match_regexs with re.match in place of re.fullmatch
_match_regexs_prefix(text, regexs) ==
    \E k \in 1..Len(regexs) : re_match(regexs[k], text)

\* any(re_fullmatch(rgx, text) for rgx in regexs)
_match_regexs(text, regexs) ==
    \E k \in 1..Len(regexs) : re_fullmatch(regexs[k], text)

(***************************************************************************)
(* Filtering.                                                              *)
(***************************************************************************)
Filtering(tb_names, include_tests, exclude_tests, include_tags, exclude_tags) ==
    [tb_names |-> tb_names,
     include_tests |-> include_tests, exclude_tests |-> exclude_tests,
     include_tags |-> include_tags, exclude_tags |-> exclude_tags]

\* [i for i in valid if keep(i)]
RECURSIVE Comprehend(_, _, _, _)
Comprehend(valid, regexs, negate, k) ==
    IF k > Len(valid) THEN <<>>
    ELSE LET m == _match_regexs(valid[k], regexs)
             rest == Comprehend(valid, regexs, negate, k + 1)
         IN  IF m # negate THEN <<valid[k]>> \o rest ELSE rest

\* "for i in valid: if matches: valid.remove(i)": removing from the list
\* being iterated makes the iteration skip the element after each removal
RECURSIVE RemoveInPlace(_, _, _)
RemoveInPlace(valid, regexs, k) ==
    IF k > Len(valid) THEN valid
    ELSE IF _match_regexs(valid[k], regexs)
         THEN RemoveInPlace(SubSeq(valid, 1, k - 1) \o SubSeq(valid, k + 1, Len(valid)),
                            regexs, k + 1)
         ELSE RemoveInPlace(valid, regexs, k + 1)

\* get_valid whose exclusion removes in place while iterating
get_valid_remove_in_place(self, attr, dataset) ==
    LET inclusion == IF attr = "tags" THEN self.include_tags ELSE self.include_tests
        exclusion == IF attr = "tags" THEN self.exclude_tags ELSE self.exclude_tests
        included == IF inclusion # <<>>
                    THEN Comprehend(dataset, inclusion, FALSE, 1) ELSE dataset
    IN  IF exclusion # <<>> THEN RemoveInPlace(included, exclusion, 1) ELSE included

\* get_valid whose exclusion is only applied when there is no inclusion list
get_valid_elif(self, attr, dataset) ==
    LET inclusion == IF attr = "tags" THEN self.include_tags ELSE self.include_tests
        exclusion == IF attr = "tags" THEN self.exclude_tags ELSE self.exclude_tests
    IN  IF inclusion # <<>> THEN Comprehend(dataset, inclusion, FALSE, 1)
        ELSE IF exclusion # <<>> THEN Comprehend(dataset, exclusion, TRUE, 1)
        ELSE dataset

\* Filtering.get_valid for attr in {"tags", "tests"} (any other attribute
\* raises ValueError before the lists are read)
get_valid(self, attr, dataset) ==
    LET inclusion == IF attr = "tags" THEN self.include_tags ELSE self.include_tests
        exclusion == IF attr = "tags" THEN self.exclude_tags ELSE self.exclude_tests
        included == IF inclusion # <<>>
                    THEN Comprehend(dataset, inclusion, FALSE, 1) ELSE dataset
    IN  IF exclusion # <<>> THEN Comprehend(included, exclusion, TRUE, 1) ELSE included

(***************************************************************************)
(* Paths and the module search registry.                                   *)
(***************************************************************************)
\* a pathlib.Path object and a str are never equal, whatever they spell
Path(parts) == [t |-> "Path", v |-> parts]
str(path) == [t |-> "str", v |-> path.v]
parent(path) == Path(SubSeq(path.v, 1, Len(path.v) - 1))

\* x in list
In(x, list) == \E k \in 1..Len(list) : list[k] = x

\* load_includes: append every include directory not yet registered
RECURSIVE load_includes_from(_, _, _)
load_includes_from(include, k, sp) ==
    IF k > Len(include) THEN sp
    ELSE load_includes_from(include, k + 1,
             IF In(str(include[k]), sp) THEN sp ELSE Append(sp, str(include[k])))

\* a load_includes that looks for the Path object among the registered
\* strings, and so appends every include directory at every call
RECURSIVE load_includes_unchecked(_, _)
load_includes_unchecked(rbook, sp) ==
    IF rbook.include = <<>> THEN sp
    ELSE load_includes_unchecked([rbook EXCEPT !.include = Tail(@)],
             IF In(Head(rbook.include), sp) THEN sp
             ELSE Append(sp, str(Head(rbook.include))))

load_includes(rbook, sp) == load_includes_from(rbook.include, 1, sp)

\* load_n_import_tb, the registry part: the testbench directory, then its
\* parent, each inserted at the front when the Path object is not found
\* among the registered strings
sys_path_insert(path, sp) == IF In(path, sp) THEN sp ELSE <<str(path)>> \o sp

load_n_import_tb_path(tb_info, sp) ==
    sys_path_insert(parent(tb_info.path), sys_path_insert(tb_info.path, sp))

(***************************************************************************)
(* The runbooks of the model: three loaded configuration files.            *)
(***************************************************************************)
EmptyMap == [k \in {} |-> None]
\* a string value of a parameter map
Str(x) == [t |-> "str", v |-> <<x>>]

Testbench(name, dir, srcs, rtl_top, tags, build_args, test_args) ==
    [name |-> name, path |-> Path(<<"w", dir>>), srcs |-> srcs,
     tb_top |-> "tb_top", rtl_top |-> rtl_top, hdl |-> "verilog",
     tags |-> tags, build_args |-> build_args, test_args |-> test_args]

\* RB1: tbA is tagged a ("smoke"), tbB is tagged b ("regress"), tbC has no
\* tags.  Dictionaries keep insertion order, so srcs and tbs are sequences.
RB1 ==
    [title |-> "one", sim |-> "icarus",
     srcs |-> <<[i |-> 0, p |-> Path(<<"w", "r0.v">>)],
                [i |-> 1, p |-> Path(<<"w", "r1.v">>)]>>,
     include |-> <<Path(<<"w", "inc">>)>>,
     build_args |-> ("waves" :> Str("on")) @@ ("defines" :> Str("G")),
     test_args |-> ("seed" :> Str("1")),
     tbs |-> <<Testbench("tbA", "dirA", <<1, 0, 1>>, "topA", <<T_a>>,
                         ("defines" :> Str("A")), ("waves" :> Str("on"))),
               Testbench("tbB", "dirB", <<0>>, "topB", <<T_b>>,
                         EmptyMap, ("results_xml" :> Str("b.xml"))),
               Testbench("tbC", "dirC", <<>>, "topC", <<>>,
                         EmptyMap, EmptyMap)>>]

\* RB2: another runbook, with its own tbA (tagged a and ab, referring to no
\* source) and a testbench tbD whose module cannot be imported.
RB2 ==
    [title |-> "two", sim |-> "verilator",
     srcs |-> <<[i |-> 0, p |-> Path(<<"v", "s0.v">>)]>>,
     include |-> <<Path(<<"w", "inc">>), Path(<<"v", "inc">>)>>,
     build_args |-> EmptyMap,
     test_args |-> EmptyMap,
     tbs |-> <<Testbench("tbA", "dirA2", <<>>, "topA2", <<T_a, T_ab>>,
                         EmptyMap, ("seed" :> Str("2"))),
               Testbench("tbD", "dirD", <<>>, "topD", <<T_b>>,
                         EmptyMap, EmptyMap)>>]

\* RB3: a runbook of one testbench, whose module defines three tests.
RB3 ==
    [title |-> "three", sim |-> "ghdl",
     srcs |-> <<>>,
     include |-> <<>>,
     build_args |-> EmptyMap,
     test_args |-> EmptyMap,
     tbs |-> <<Testbench("tbE", "dirE", <<>>, "topE", <<T_a>>,
                         EmptyMap, EmptyMap)>>]

RbIds == {"RB1", "RB2", "RB3"}
LoadedRunbooks ==
    [r \in RbIds |-> CASE r = "RB1" -> RB1 [] r = "RB2" -> RB2 [] OTHER -> RB3]

\* the runbooks whose plans are accumulated and run
RunRbIds == {"RB1", "RB2"}

\* the names a caller may ask for
Names == {"tbA", "tbB", "nonexistent"}

\* What the Python module <dir>.tb_top of each testbench directory holds:
\* whether it can be imported and the cocotb tests it defines.
TbModule(dir) ==
    CASE dir = "dirA"  -> [importable |-> TRUE, tests |-> {T_a, T_ab}]
      [] dir = "dirB"  -> [importable |-> TRUE, tests |-> {T_ab}]
      [] dir = "dirC"  -> [importable |-> TRUE, tests |-> {T_b}]
      [] dir = "dirA2" -> [importable |-> TRUE, tests |-> {}]
      [] dir = "dirE"  -> [importable |-> TRUE, tests |-> {T_a, T_ab, T_b}]
      [] OTHER         -> [importable |-> FALSE, tests |-> {}]

\* find_spec / exec_module of load_n_import_tb: the imported module;
\* TbEnvImportError is raised when it is not importable
load_n_import_tb(tb_info) == TbModule(tb_info.path.v[Len(tb_info.path.v)])

\* text order: a < ab < b, as Python compares strings
RECURSIVE TextLess(_, _)
TextLess(s, t) ==
    IF s = <<>> THEN t # <<>>
    ELSE IF t = <<>> THEN FALSE
    ELSE IF Head(s) # Head(t) THEN Head(s) = "a"
    ELSE TextLess(Tail(s), Tail(t))

\* sorted(S) as a list
RECURSIVE Sorted(_)
Sorted(S) ==
    IF S = {} THEN <<>>
    ELSE LET m == CHOOSE x \in S : \A y \in S \ {x} : TextLess(x, y)
         IN  <<m>> \o Sorted(S \ {m})

\* get_test_names: the names of dir(tb_pkg), which is sorted, that are
\* cocotb tests
get_test_names(tb_pkg) == Sorted(tb_pkg.tests)

(***************************************************************************)
(* The Filtering objects a caller may build.                               *)
(***************************************************************************)
SeqsUpTo(S, n) == UNION {[1..k -> S] : k \in 0..n}

\* every Filtering with at most n entries over its five lists
CriteriaUpTo(n) ==
    UNION {UNION {UNION {UNION {
        {Filtering(nm, it, et, ig, eg) :
            eg \in SeqsUpTo(Patterns, n - Len(nm) - Len(it) - Len(et) - Len(ig))}
        : ig \in SeqsUpTo(Patterns, n - Len(nm) - Len(it) - Len(et))}
        : et \in SeqsUpTo(Patterns, n - Len(nm) - Len(it))}
        : it \in SeqsUpTo(Patterns, n - Len(nm))}
        : nm \in SeqsUpTo(Names, n)}

CriteriaSet == CriteriaUpTo(MaxCriteria)
\* the Filtering objects of the calls that accumulate a regression plan to
\* run: no constraint, one requested name, or one pattern in one list
RunCriteriaSet ==
    {Filtering(<<>>, <<>>, <<>>, <<>>, <<>>)}
    \cup {Filtering(<<nm>>, <<>>, <<>>, <<>>, <<>>) : nm \in Names}
    \cup {Filtering(<<>>, <<p>>, <<>>, <<>>, <<>>) : p \in Patterns}
    \cup {Filtering(<<>>, <<>>, <<p>>, <<>>, <<>>) : p \in Patterns}
    \cup {Filtering(<<>>, <<>>, <<>>, <<p>>, <<>>) : p \in Patterns}
    \cup {Filtering(<<>>, <<>>, <<>>, <<>>, <<p>>) : p \in Patterns}
Datasets == SeqsUpTo(Texts, MaxDataset)

(***************************************************************************)
(* Orchestrator.build_plan.                                                *)
(***************************************************************************)
ExecutionPlan(runbook, tb_name, tests) ==
    [runbook |-> runbook, tb_name |-> tb_name, tests |-> tests]

\* Runbook.__contains__
Contains(rbook, name) == \E k \in 1..Len(rbook.tbs) : rbook.tbs[k].name = name

\* rbook.tbs[name]
tbs_get(rbook, name) ==
    rbook.tbs[CHOOSE k \in 1..Len(rbook.tbs) : rbook.tbs[k].name = name]

\* list(rbook.tbs.keys())
tbs_keys(rbook) == [k \in 1..Len(rbook.tbs) |-> rbook.tbs[k].name]

\* [t for t in criteria.tb_names if t in rbook]
RECURSIVE known_names(_, _, _)
known_names(rbook, tb_names, k) ==
    IF k > Len(tb_names) THEN <<>>
    ELSE (IF Contains(rbook, tb_names[k]) THEN <<tb_names[k]>> ELSE <<>>)
         \o known_names(rbook, tb_names, k + 1)

\* the candidates of build_plan
valid_tbs(rbook, criteria) ==
    IF criteria.tb_names = <<>> THEN tbs_keys(rbook)
    ELSE known_names(rbook, criteria.tb_names, 1)

\* tagged_plans building the plans in reverse candidate order
RECURSIVE tagged_plans_reversed(_, _, _, _, _)
tagged_plans_reversed(rb, rbook, criteria, names, k) ==
    IF k > Len(names) THEN <<>>
    ELSE tagged_plans_reversed(rb, rbook, criteria, names, k + 1)
         \o (IF get_valid(criteria, "tags", tbs_get(rbook, names[k]).tags) = <<>>
             THEN <<>> ELSE <<ExecutionPlan(rb, names[k], <<>>)>>)

\* the loop over valid_tbs: a plan for every candidate with a valid tag
RECURSIVE tagged_plans(_, _, _, _, _)
tagged_plans(rb, rbook, criteria, names, k) ==
    IF k > Len(names) THEN <<>>
    ELSE (IF get_valid(criteria, "tags", tbs_get(rbook, names[k]).tags) = <<>>
          THEN <<>> ELSE <<ExecutionPlan(rb, names[k], <<>>)>>)
         \o tagged_plans(rb, rbook, criteria, names, k + 1)

\* discover selecting the tests with the tag lists of the criteria
RECURSIVE discover_by_tags(_, _, _, _, _)
discover_by_tags(rbook, criteria, plans, k, sp) ==
    IF k > Len(plans) THEN [raised |-> None, plans |-> plans, sys_path |-> sp]
    ELSE LET tb_info == tbs_get(rbook, plans[k].tb_name)
             sp1 == load_n_import_tb_path(tb_info, sp)
             tb_pkg == load_n_import_tb(tb_info)
             all_tests == get_test_names(tb_pkg)
         IN  IF ~tb_pkg.importable
             THEN [raised |-> "TbEnvImportError", plans |-> <<>>, sys_path |-> sp1]
             ELSE discover_by_tags(rbook, criteria,
                           [plans EXCEPT ![k].tests = get_valid(criteria, "tags", all_tests)],
                           k + 1, sp1)

\* discover leaving out the plans whose selected test list is empty
RECURSIVE discover_nonempty(_, _, _, _, _)
discover_nonempty(rbook, criteria, plans, k, sp) ==
    IF k > Len(plans) THEN [raised |-> None, plans |-> plans, sys_path |-> sp]
    ELSE LET tb_info == tbs_get(rbook, plans[k].tb_name)
             sp1 == load_n_import_tb_path(tb_info, sp)
             tb_pkg == load_n_import_tb(tb_info)
             tests == get_valid(criteria, "tests", get_test_names(tb_pkg))
         IN  IF ~tb_pkg.importable
             THEN [raised |-> "TbEnvImportError", plans |-> <<>>, sys_path |-> sp1]
             ELSE IF tests = <<>>
             THEN discover_nonempty(rbook, criteria,
                      SubSeq(plans, 1, k - 1) \o SubSeq(plans, k + 1, Len(plans)), k, sp1)
             ELSE discover_nonempty(rbook, criteria,
                      [plans EXCEPT ![k].tests = tests], k + 1, sp1)

\* discover leaving out the testbenches whose module cannot be imported
RECURSIVE discover_skip_failed(_, _, _, _, _)
discover_skip_failed(rbook, criteria, plans, k, sp) ==
    IF k > Len(plans) THEN [raised |-> None, plans |-> plans, sys_path |-> sp]
    ELSE LET tb_info == tbs_get(rbook, plans[k].tb_name)
             sp1 == load_n_import_tb_path(tb_info, sp)
             tb_pkg == load_n_import_tb(tb_info)
             all_tests == get_test_names(tb_pkg)
         IN  IF ~tb_pkg.importable
             THEN discover_skip_failed(rbook, criteria,
                      SubSeq(plans, 1, k - 1) \o SubSeq(plans, k + 1, Len(plans)), k, sp1)
             ELSE discover_skip_failed(rbook, criteria,
                      [plans EXCEPT ![k].tests = get_valid(criteria, "tests", all_tests)],
                      k + 1, sp1)

\* the loop over plans: import each testbench, discover and select its tests
RECURSIVE discover(_, _, _, _, _)
discover(rbook, criteria, plans, k, sp) ==
    IF k > Len(plans) THEN [raised |-> None, plans |-> plans, sys_path |-> sp]
    ELSE LET tb_info == tbs_get(rbook, plans[k].tb_name)
             sp1 == load_n_import_tb_path(tb_info, sp)
             tb_pkg == load_n_import_tb(tb_info)
             all_tests == get_test_names(tb_pkg)
         IN  IF ~tb_pkg.importable
             THEN [raised |-> "TbEnvImportError", plans |-> <<>>, sys_path |-> sp1]
             ELSE discover(rbook, criteria,
                           [plans EXCEPT ![k].tests = get_valid(criteria, "tests", all_tests)],
                           k + 1, sp1)

\* Orchestrator.build_plan(rbook, criteria), rb being the identity of rbook
\* and sp the registry at the call: what it raises, the plans it returns and
\* the registry it leaves
build_plan(rb, rbook, criteria, sp) ==
    LET plans == tagged_plans(rb, rbook, criteria, valid_tbs(rbook, criteria), 1)
    IN  IF plans = <<>> THEN [raised |-> None, plans |-> <<>>, sys_path |-> sp]
        ELSE discover(rbook, criteria, plans, 1, load_includes(rbook, sp))

(***************************************************************************)
(* Orchestrator.run_regression and print_regression.                       *)
(***************************************************************************)
\* [i for i in tests for _ in range(n)]
RECURSIVE Repeat(_, _)
Repeat(x, n) == IF n = 0 THEN <<>> ELSE <<x>> \o Repeat(x, n - 1)

\* [i for _ in range(n) for i in tests]: the whole list, n times over
RECURSIVE expand_rounds(_, _)
expand_rounds(tests, n) ==
    IF n = 0 THEN <<>> ELSE tests \o expand_rounds(tests, n - 1)

RECURSIVE expand(_, _)
expand(tests, n) ==
    IF tests = <<>> THEN <<>> ELSE Repeat(Head(tests), n) \o expand(Tail(tests), n)

\* [rb.srcs[i] for i in tb.srcs]: the paths in the order of the index list
\* of the testbench
RECURSIVE sources_by_index_list(_, _, _)
sources_by_index_list(srcs, tb_srcs, k) ==
    IF k > Len(tb_srcs) THEN <<>>
    ELSE <<srcs[CHOOSE j \in 1..Len(srcs) : srcs[j].i = tb_srcs[k]].p>>
         \o sources_by_index_list(srcs, tb_srcs, k + 1)

\* [p for i, p in rb.srcs.items() if i in tb.srcs]
RECURSIVE sources_of(_, _, _)
sources_of(srcs, tb_srcs, k) ==
    IF k > Len(srcs) THEN <<>>
    ELSE (IF In(srcs[k].i, tb_srcs) THEN <<srcs[k].p>> ELSE <<>>)
         \o sources_of(srcs, tb_srcs, k + 1)

\* {**t, **g}: the global value wins
merge_global_wins(g, t) ==
    [k \in DOMAIN g \cup DOMAIN t |-> IF k \in DOMAIN g THEN g[k] ELSE t[k]]

\* {**g, **t}
merge(g, t) ==
    [k \in DOMAIN g \cup DOMAIN t |-> IF k \in DOMAIN t THEN t[k] ELSE g[k]]

\* get_runner(sim): a new runner for the simulator, with its build directory
get_runner(name) == [sim |-> name, build_dir |-> Path(<<"sim_build">>)]

\* the keywords run_regression passes to Simulator.build and Simulator.test
BuildKeywords == {"sources", "hdl_toplevel", "always"}
TestKeywords ==
    {"hdl_toplevel", "hdl_toplevel_lang", "test_module", "testcase", "results_xml"}

(***************************************************************************)
(* Runbook.load_yaml: the file system and the parsed documents.            *)
(***************************************************************************)
\* the directory of the runbook file, base of the relative paths
yaml_path == <<"/", "w">>

\* Path.is_absolute, and get_abs_path for a path without ~ or $ references
is_absolute(p) == p # <<>> /\ p[1] = "/"
get_abs_path(base, p) == Path(IF is_absolute(p) THEN p ELSE base \o p)

\* the file system: two files and two directories under /w, one
\* directory outside of it
KindOf(parts) ==
    CASE parts = <<"/", "w", "f0">> -> "file"
      [] parts = <<"/", "w", "f1">> -> "file"
      [] parts = <<"/", "w", "d0">> -> "dir"
      [] parts = <<"/", "w", "d1">> -> "dir"
      [] parts = <<"/", "inc">> -> "dir"
      [] OTHER -> "missing"
is_file(path) == KindOf(path.v) = "file"
is_dir(path) == KindOf(path.v) = "dir"
exists(path) == KindOf(path.v) # "missing"

\* A section of the document that may be left out.  Parameter maps are the
\* sequences of their keys, in the order of the document.
Absent == [given |-> FALSE, v |-> <<>>]
Given(v) == [given |-> TRUE, v |-> v]
getdef(field) == field.v

\* a testbench entry of the document
TbEntry(path, hdl, rtl_top, srcs, test_args, build_args) ==
    [path |-> path, tb_top |-> "tb_top", hdl |-> hdl, rtl_top |-> rtl_top,
     srcs |-> srcs, tags |-> Absent, test_args |-> test_args,
     build_args |-> build_args]

TbEntries ==
    {\* a complete entry
     TbEntry(<<"d0">>, "verilog", Given("top"), Given(<<0>>),
             Given(<<"seed">>), Given(<<"defines">>)),
     \* the required fields only
     TbEntry(<<"d1">>, "vhdl", Absent, Absent, Absent, Absent),
     \* the unregistered index 2
     TbEntry(<<"d0">>, "verilog", Given("top"), Given(<<0, 2>>), Absent, Absent),
     \* the unregistered indices 2 and 4
     TbEntry(<<"d1">>, "vhdl", Given("top"), Given(<<2, 0, 4>>), Absent, Absent),
     \* a file where a directory is expected, and the unregistered index 5
     TbEntry(<<"f0">>, "verilog", Given("top"), Given(<<5>>), Absent, Absent),
     \* a missing directory
     TbEntry(<<"/", "w", "nodir">>, "verilog", Given("top"), Absent, Absent, Absent),
     \* results_xml among the test parameters
     TbEntry(<<"/", "w", "d0">>, "verilog", Given("top"), Given(<<0>>),
             Given(<<"seed", "results_xml">>), Absent),
     \* illegal keys in both maps
     TbEntry(<<"d0">>, "verilog", Given("top"), Absent,
             Given(<<"bogus", "seed", "testcase">>), Given(<<"always", "bogus">>))}

TbNames == <<"tbA", "tbB", "tbC", "tbD">>

\* the tbs section as written in the file: up to n entries, named in
\* order, the last one possibly under the name of the first again
TbsUpTo(n) ==
    UNION {{[k \in 1..m |-> [name |-> IF k = m THEN last ELSE TbNames[k],
                             info |-> f[k]]] :
               f \in [1..m -> TbEntries], last \in {TbNames[m], TbNames[1]}} :
           m \in 1..n}

SrcsTables ==
    {Absent,
     Given(<<[i |-> 0, p |-> <<"f0">>]>>),
     Given(<<[i |-> 0, p |-> <<"f0">>], [i |-> 1, p |-> <<"/", "w", "f1">>]>>),
     Given(<<[i |-> 0, p |-> <<"f0">>], [i |-> 1, p |-> <<"d0">>],
             [i |-> 3, p |-> <<"nofile">>]>>)}
Includes ==
    {Absent, Given(<<<<"/", "inc">>, <<"f1">>>>),
     Given(<<<<"noinc">>, <<"d0">>, <<"/", "none">>>>)}
GeneralTestArgs == {Absent, Given(<<"seed">>), Given(<<"bogus", "hdl_toplevel">>)}
GeneralBuildArgs == {Absent, Given(<<"defines">>), Given(<<"sources", "bogus">>)}
Sims == {"icarus", "nosim"}

\* the documents of the runbook files, as written
Docs ==
    {[sim |-> s, srcs |-> t, include |-> i, test_args |-> ta, build_args |-> ba,
      tbs |-> tbs] :
        s \in Sims, t \in SrcsTables, i \in Includes, ta \in GeneralTestArgs,
        ba \in GeneralBuildArgs, tbs \in TbsUpTo(MaxTbs)}

(***************************************************************************)
(* Runbook.load_yaml: the parse and the validation stages.                 *)
(***************************************************************************)
\* the mapping constructor of the YAML loader: mapping[key] = value for
\* every pair of the node in turn, so that a key written twice keeps its
\* first position and its last value
RECURSIVE construct_mapping(_, _, _)
construct_mapping(pairs, k, mapping) ==
    IF k > Len(pairs) THEN mapping
    ELSE construct_mapping(pairs, k + 1,
             IF \E j \in 1..Len(mapping) : mapping[j].name = pairs[k].name
             THEN [j \in 1..Len(mapping) |->
                      IF mapping[j].name = pairs[k].name THEN pairs[k]
                      ELSE mapping[j]]
             ELSE Append(mapping, pairs[k]))

\* safe_load(f_handler): the dictionary of the document
safe_load(text) == [text EXCEPT !.tbs = construct_mapping(text.tbs, 1, <<>>)]

\* a dictionary without testbenches
EmptyDict ==
    [sim |-> None, srcs |-> Absent, include |-> Absent, test_args |-> Absent,
     build_args |-> Absent, tbs |-> <<>>]

\* exceptions: RbValidationError carries its number and, in its message,
\* the offending paths, the unregistered indices by testbench, or the key
\* and the allowed keys
NoError ==
    [type |-> None, id |-> 0, paths |-> <<>>, unreg |-> <<>>, keys |-> <<>>,
     allowed |-> <<>>]
RbValidationError(id, paths, unreg, keys, allowed) ==
    [type |-> "RbValidationError", id |-> id, paths |-> paths, unreg |-> unreg,
     keys |-> keys, allowed |-> allowed]
KeyError(key) == [NoError EXCEPT !.type = "KeyError", !.keys = <<key>>]

\* the schema: the simulators and hardware languages it allows
AllowedSims ==
    {"icarus", "verilator", "vcs", "riviera", "questa", "activehdl", "modelsim",
     "ius", "xcelium", "ghdl", "nvc", "cvc"}
AllowedHdl == {"verilog", "vhdl"}

\* a section with "empty": False
NonEmpty(field) == field.given => field.v # <<>>

\* _validate_yaml_schema, for documents that keep the general keys at top
\* level: the exception it raises
_validate_yaml_schema(yaml_dict) ==
    IF /\ yaml_dict.sim \in AllowedSims
       /\ NonEmpty(yaml_dict.srcs)
       /\ NonEmpty(yaml_dict.include)
       /\ \A k \in 1..Len(yaml_dict.tbs) :
             LET info == yaml_dict.tbs[k].info
             IN  /\ info.hdl \in AllowedHdl
                 /\ info.path # <<>>
                 /\ NonEmpty(info.srcs)
                 /\ NonEmpty(info.tags)
    THEN NoError
    ELSE RbValidationError(0, <<>>, <<>>, <<>>, <<>>)

\* _validate_paths, first half: the dictionary with its paths resolved and
\* its optional sections filled in
resolve_paths(rb_dict, base) ==
    [rb_dict EXCEPT
        !.srcs = [k \in 1..Len(getdef(rb_dict.srcs)) |->
                     [i |-> getdef(rb_dict.srcs)[k].i,
                      p |-> get_abs_path(base, getdef(rb_dict.srcs)[k].p)]],
        !.tbs = [k \in 1..Len(rb_dict.tbs) |->
                    [rb_dict.tbs[k] EXCEPT
                        !.info.path = get_abs_path(base, @),
                        !.info.srcs = getdef(@),
                        !.info.build_args = getdef(@),
                        !.info.test_args = getdef(@)]],
        !.include = [k \in 1..Len(getdef(rb_dict.include)) |->
                        get_abs_path(base, getdef(rb_dict.include)[k])],
        !.build_args = getdef(@),
        !.test_args = getdef(@)]

\* the paths of a list that fail a test, as strings, in order
path_test(test, path) ==
    CASE test = "is_file" -> is_file(path)
      [] test = "is_dir" -> is_dir(path)
      [] OTHER -> exists(path)

RECURSIVE non_exist(_, _, _)
non_exist(paths, test, k) ==
    IF k > Len(paths) THEN <<>>
    ELSE (IF path_test(test, paths[k]) THEN <<>> ELSE <<str(paths[k])>>)
         \o non_exist(paths, test, k + 1)

\* only the first unregistered index of the testbench
unreg_of_first(tb_srcs, x_srcs) ==
    LET unreg == SelectSeq(tb_srcs, LAMBDA i : ~In(i, x_srcs))
    IN  IF unreg = <<>> THEN <<>> ELSE <<Head(unreg)>>

\* [i for i in tb["srcs"] if i not in x_srcs]
unreg_of(tb_srcs, x_srcs) == SelectSeq(tb_srcs, LAMBDA i : ~In(i, x_srcs))

\* the testbenches with unregistered indices, each with all of them
RECURSIVE non_reg(_, _, _)
non_reg(tbs, x_srcs, k) ==
    IF k > Len(tbs) THEN <<>>
    ELSE (IF unreg_of(tbs[k].info.srcs, x_srcs) = <<>> THEN <<>>
          ELSE <<[tb |-> tbs[k].name,
                  unreg |-> unreg_of(tbs[k].info.srcs, x_srcs)]>>)
         \o non_reg(tbs, x_srcs, k + 1)

\* a check that raises at the first path that is not valid
check_paths_first(rb_dict) ==
    LET x_srcs == [k \in 1..Len(rb_dict.srcs) |-> rb_dict.srcs[k].i]
        x_non_exist ==
            non_exist([k \in 1..Len(rb_dict.srcs) |-> rb_dict.srcs[k].p], "is_file", 1)
            \o non_exist([k \in 1..Len(rb_dict.tbs) |-> rb_dict.tbs[k].info.path],
                         "is_dir", 1)
            \o non_exist(rb_dict.include, "exists", 1)
        x_non_reg == non_reg(rb_dict.tbs, x_srcs, 1)
    IN  IF x_non_exist # <<>>
        THEN RbValidationError(1, <<Head(x_non_exist)>>, <<>>, <<>>, <<>>)
        ELSE IF x_non_reg # <<>>
        THEN RbValidationError(2, <<>>, x_non_reg, <<>>, <<>>)
        ELSE NoError

\* _validate_paths, second half, on the resolved dictionary: the exception
\* it raises
check_paths(rb_dict) ==
    LET x_srcs == [k \in 1..Len(rb_dict.srcs) |-> rb_dict.srcs[k].i]
        x_non_exist ==
            non_exist([k \in 1..Len(rb_dict.srcs) |-> rb_dict.srcs[k].p], "is_file", 1)
            \o non_exist([k \in 1..Len(rb_dict.tbs) |-> rb_dict.tbs[k].info.path],
                         "is_dir", 1)
            \o non_exist(rb_dict.include, "exists", 1)
        x_non_reg == non_reg(rb_dict.tbs, x_srcs, 1)
    IN  IF x_non_exist # <<>>
        THEN RbValidationError(1, x_non_exist, <<>>, <<>>, <<>>)
        ELSE IF x_non_reg # <<>>
        THEN RbValidationError(2, <<>>, x_non_reg, <<>>, <<>>)
        ELSE NoError

\* the parameters of Simulator.build and Simulator.test of cocotb.runner
SimulatorArgs(sim_method) ==
    IF sim_method = "build"
    THEN <<"self", "hdl_library", "verilog_sources", "vhdl_sources", "sources",
           "includes", "defines", "parameters", "build_args", "hdl_toplevel",
           "always", "build_dir", "clean", "verbose", "timescale", "waves",
           "log_file">>
    ELSE <<"self", "test_module", "hdl_toplevel", "hdl_toplevel_library",
           "hdl_toplevel_lang", "gpi_interfaces", "testcase", "seed", "test_args",
           "plusargs", "extra_env", "waves", "gui", "parameters", "build_dir",
           "test_dir", "results_xml", "pre_cmd", "verbose", "timescale",
           "log_file">>

\* the parameters _validate_stages_args keeps from the user
ExcludedArgs ==
    {"self", "verilog_sources", "vhdl_sources", "sources", "hdl_toplevel",
     "test_module", "hdl_toplevel_lang", "testcase", "always", "timescale"}

valid_args(sim_method) ==
    SelectSeq(SimulatorArgs(sim_method), LAMBDA a : a \notin ExcludedArgs)

\* _validate_stages_args: the exception it raises, at the first illegal key
_validate_stages_args(args, sim_method) ==
    LET bad == SelectSeq(args, LAMBDA key : ~In(key, valid_args(sim_method)))
    IN  IF bad = <<>> THEN NoError
        ELSE RbValidationError(3, <<>>, <<>>, <<Head(bad)>>, valid_args(sim_method))

\* the _validate_stages_args calls of load_yaml, in order
RECURSIVE tb_stage_calls(_, _)
tb_stage_calls(tbs, k) ==
    IF k > Len(tbs) THEN <<>>
    ELSE <<[of |-> tbs[k].name, args |-> tbs[k].info.test_args, method |-> "test"],
           [of |-> tbs[k].name, args |-> tbs[k].info.build_args, method |-> "build"]>>
         \o tb_stage_calls(tbs, k + 1)

\* the calls with the build maps validated before the test maps
stage_calls_build_first(rb_dict) ==
    LET calls ==
            <<[of |-> "general", args |-> rb_dict.test_args, method |-> "test"],
              [of |-> "general", args |-> rb_dict.build_args, method |-> "build"]>>
            \o tb_stage_calls(rb_dict.tbs, 1)
    IN  [j \in 1..Len(calls) |-> IF j % 2 = 1 THEN calls[j + 1] ELSE calls[j - 1]]

stage_calls(rb_dict) ==
    <<[of |-> "general", args |-> rb_dict.test_args, method |-> "test"],
      [of |-> "general", args |-> rb_dict.build_args, method |-> "build"]>>
    \o tb_stage_calls(rb_dict.tbs, 1)

\* no Runbook object
NoRunbook ==
    [made |-> FALSE, sim |-> None, srcs |-> <<>>, include |-> <<>>,
     test_args |-> <<>>, build_args |-> <<>>, tbs |-> <<>>]

\* the Runbook(...) expression that ends load_yaml
MakeRunbook(rb_dict) ==
    [made |-> TRUE, sim |-> rb_dict.sim, srcs |-> rb_dict.srcs,
     include |-> rb_dict.include, test_args |-> rb_dict.test_args,
     build_args |-> rb_dict.build_args,
     tbs |-> [k \in 1..Len(rb_dict.tbs) |->
                 LET info == rb_dict.tbs[k].info
                 IN  [name |-> rb_dict.tbs[k].name, build_args |-> info.build_args,
                      hdl |-> info.hdl, path |-> info.path,
                      rtl_top |-> info.rtl_top.v, srcs |-> info.srcs,
                      tags |-> getdef(info.tags), tb_top |-> info.tb_top,
                      test_args |-> info.test_args]]]

\* no load_yaml call
NoLoad ==
    [pc |-> "none", text |-> EmptyDict, doc |-> EmptyDict, rb_dict |-> EmptyDict,
     k |-> 0, log |-> <<>>, raised |-> NoError, runbook |-> NoRunbook]

(***************************************************************************)
(* The state machine.                                                      *)
(***************************************************************************)
NoCall ==
    [called |-> FALSE, rb |-> None, criteria |-> Filtering(<<>>, <<>>, <<>>, <<>>, <<>>),
     raised |-> None, plans |-> <<>>]
NoSel ==
    [criteria |-> Filtering(<<>>, <<>>, <<>>, <<>>, <<>>), attr |-> "tags",
     dataset |-> <<>>, out |-> <<>>]

\* the process while _exec_thread runs
NoProc == [ended |-> FALSE, stdout |-> <<>>, uncaught |-> FALSE, status |-> 0]

\* the exceptions main catches: RbError, CocomanError, TbEnvError and their
\* subclasses
DomainErrors ==
    {"RbFileError", "RbValidationError", "RbYAMLError", "CocomanNameError",
     "TbEnvImportError"}

\* str(excp): the area and the prefix of the class, the number, the message
Rendering(area, prefix, tag_id, message) ==
    [area |-> area, prefix |-> prefix, tag_id |-> tag_id, message |-> message]

\* main(), once _exec_thread has returned or raised an exception of the
\* given type: a domain error is printed and main returns, so that the
\* process ends with status 0; any other exception ends it with a traceback
\* and status 1
main(type, text) ==
    IF type = None
    THEN [ended |-> TRUE, stdout |-> <<>>, uncaught |-> FALSE, status |-> 0]
    ELSE IF type \in DomainErrors
    THEN [ended |-> TRUE, stdout |-> <<text>>, uncaught |-> FALSE, status |-> 0]
    ELSE [ended |-> TRUE, stdout |-> <<>>, uncaught |-> TRUE, status |-> 1]

Init ==
    /\ rbooks = LoadedRunbooks
    /\ sys_path = <<>>
    /\ ret = NoCall
    /\ regression_plan = <<>>
    /\ pc = "idle"
    /\ n_times = 0
    /\ idx = 0
    /\ previous_rb = None
    /\ sim = None
    /\ backend = <<>>
    /\ console = <<>>
    /\ raised = None
    /\ sel = NoSel
    /\ ld = NoLoad
    /\ proc = NoProc

\* Orchestrator.build_plan(rbook, criteria), called on its own: ret keeps
\* the arguments and what the call returned or raised
BuildPlan(rb, criteria) ==
    LET r == build_plan(rb, rbooks[rb], criteria, sys_path)
    IN  /\ pc = "idle"
        /\ ret' = [called |-> TRUE, rb |-> rb, criteria |-> criteria,
                   raised |-> r.raised, plans |-> r.plans]
        /\ sys_path' = r.sys_path
        /\ raised' = r.raised
        /\ pc' = IF r.raised = None THEN "planned" ELSE "exit"
        /\ UNCHANGED <<rbooks, regression_plan, n_times, idx, previous_rb, sim,
                       backend, console, sel, ld, proc>>

\* exec_plan = runner.build_plan(rbook, criteria)
\* runner.regression_plan += exec_plan
\* as cmd_run does; an exception of build_plan leaves the caller before the
\* plan is extended
AddPlan(rb, criteria) ==
    LET r == build_plan(rb, rbooks[rb], criteria, sys_path)
    IN  /\ pc = "idle"
        /\ Len(regression_plan) + Len(r.plans) <= MaxPlan
        /\ sys_path' = r.sys_path
        /\ raised' = r.raised
        /\ IF r.raised = None
           THEN pc' = "idle" /\ regression_plan' = regression_plan \o r.plans
           ELSE pc' = "exit" /\ regression_plan' = regression_plan
        /\ UNCHANGED <<rbooks, ret, n_times, idx, previous_rb, sim, backend,
                       console, sel, ld, proc>>

\* a preview that shows the tests of the entries without repeating them
RECURSIVE preview_unexpanded(_, _, _)
preview_unexpanded(plans, n, k) ==
    IF k > Len(plans) THEN <<>>
    ELSE LET tests == IF n = 0 THEN <<>> ELSE plans[k].tests
         IN  <<[kind |-> "rule", tb_name |-> plans[k].tb_name, tests |-> <<>>],
               IF tests = <<>>
               THEN [kind |-> "No tests to run", tb_name |-> plans[k].tb_name,
                     tests |-> <<>>]
               ELSE [kind |-> "tests", tb_name |-> plans[k].tb_name, tests |-> tests]>>
             \o preview_unexpanded(plans, n, k + 1)

\* the lines print_regression prints for the plan entries
RECURSIVE preview(_, _, _)
preview(plans, n, k) ==
    IF k > Len(plans) THEN <<>>
    ELSE LET tests == expand(plans[k].tests, n)
         IN  <<[kind |-> "rule", tb_name |-> plans[k].tb_name, tests |-> <<>>],
               IF tests = <<>>
               THEN [kind |-> "No tests to run", tb_name |-> plans[k].tb_name,
                     tests |-> <<>>]
               ELSE [kind |-> "tests", tb_name |-> plans[k].tb_name, tests |-> tests]>>
             \o preview(plans, n, k + 1)

\* a print_regression that also builds the first testbench of the plan
PrintRegression_building(n) ==
    /\ pc = "idle"
    /\ console' =
          IF regression_plan = <<>>
          THEN <<[kind |-> "No testbenches to run", tb_name |-> None, tests |-> <<>>]>>
          ELSE <<[kind |-> "DRY RUN", tb_name |-> None, tests |-> <<>>]>>
               \o preview(regression_plan, n, 1)
    /\ n_times' = n
    /\ pc' = "previewed"
    /\ backend' =
          IF regression_plan = <<>> THEN backend
          ELSE Append(backend,
                   [op |-> "build", entry |-> 1,
                    handle |-> get_runner(rbooks[regression_plan[1].runbook].sim),
                    acquired |-> TRUE,
                    sources |-> <<>>, hdl_toplevel |-> "", always |-> TRUE,
                    kwargs |-> EmptyMap])
    /\ UNCHANGED <<rbooks, sys_path, ret, regression_plan, idx,
                   previous_rb, sim, raised, sel, ld, proc>>

\* Orchestrator.print_regression(n)
PrintRegression(n) ==
    /\ pc = "idle"
    /\ console' =
          IF regression_plan = <<>>
          THEN <<[kind |-> "No testbenches to run", tb_name |-> None, tests |-> <<>>]>>
          ELSE <<[kind |-> "DRY RUN", tb_name |-> None, tests |-> <<>>]>>
               \o preview(regression_plan, n, 1)
    /\ n_times' = n
    /\ pc' = "previewed"
    /\ UNCHANGED <<rbooks, sys_path, ret, regression_plan, idx,
                   previous_rb, sim, backend, raised, sel, ld, proc>>

\* Orchestrator.run_regression(n), up to the loop; a caller that previewed
\* the plan runs it with the repetition count of the preview
RunStart(n) ==
    /\ pc \in {"idle", "previewed"}
    /\ pc = "previewed" => n = n_times
    /\ n_times' = n
    /\ previous_rb' = None
    /\ sim' = None
    /\ IF regression_plan = <<>>
       THEN pc' = "exit" /\ idx' = idx
       ELSE pc' = "build" /\ idx' = 1
    /\ UNCHANGED <<rbooks, sys_path, ret, regression_plan, backend, console,
                   raised, sel, ld, proc>>

\* a comparison that only tells the first entry from the others
differs_first_only(rb, prev) == prev = None

\* rb != previous_rb: Runbook is a dataclass, compared field by field
differs(rb, prev) == prev = None \/ rbooks[rb] # rbooks[prev]

\* a loop that goes on to the test of the entry whatever sim.build did
after_build_ignoring(ok) == "test"

\* where run_regression is after sim.build: an exception of the simulator
\* is not caught and leaves run_regression
after_build(ok) == IF ok THEN "test" ELSE "exit"

\* an iteration that merges the build parameters of the testbench into the
\* map of the runbook itself, rb.build_args.update(tb.build_args)
RunBuild_updating(ok) ==
    LET plan == regression_plan[idx]
        rb == plan.runbook
        tb == tbs_get(rbooks[rb], plan.tb_name)
        handle == IF differs(rb, previous_rb) THEN get_runner(rbooks[rb].sim) ELSE sim
        srcs == sources_of(rbooks[rb].srcs, tb.srcs, 1)
        b_args == merge(rbooks[rb].build_args, tb.build_args)
    IN  /\ pc = "build"
        /\ sys_path' = IF differs(rb, previous_rb)
                       THEN load_includes(rbooks[rb], sys_path) ELSE sys_path
        /\ sim' = handle
        /\ rbooks' = [rbooks EXCEPT ![rb].build_args = b_args]
        /\ IF DOMAIN b_args \cap BuildKeywords # {}
           THEN /\ raised' = "TypeError"
                /\ pc' = "exit"
                /\ backend' = backend
           ELSE /\ backend' = Append(backend,
                      [op |-> "build", entry |-> idx, handle |-> handle,
                       acquired |-> differs(rb, previous_rb),
                       sources |-> srcs, hdl_toplevel |-> tb.rtl_top,
                       always |-> TRUE, kwargs |-> b_args])
                /\ raised' = IF ok THEN None ELSE "BackendError"
                /\ pc' = after_build(ok)
        /\ UNCHANGED <<ret, regression_plan, n_times, idx, previous_rb,
                       console, sel, ld, proc>>

\* one iteration of the loop of run_regression, up to the return of
\* sim.build; ok is the outcome of the simulator's build.  The record of
\* the call notes whether the handle was acquired in this iteration.
RunBuild(ok) ==
    LET plan == regression_plan[idx]
        rb == plan.runbook
        tb == tbs_get(rbooks[rb], plan.tb_name)
        handle == IF differs(rb, previous_rb) THEN get_runner(rbooks[rb].sim) ELSE sim
        srcs == sources_of(rbooks[rb].srcs, tb.srcs, 1)
        b_args == merge(rbooks[rb].build_args, tb.build_args)
    IN  /\ pc = "build"
        /\ sys_path' = IF differs(rb, previous_rb)
                       THEN load_includes(rbooks[rb], sys_path) ELSE sys_path
        /\ sim' = handle
        /\ IF DOMAIN b_args \cap BuildKeywords # {}
           THEN /\ raised' = "TypeError"
                /\ pc' = "exit"
                /\ backend' = backend
           ELSE /\ backend' = Append(backend,
                      [op |-> "build", entry |-> idx, handle |-> handle,
                       acquired |-> differs(rb, previous_rb),
                       sources |-> srcs, hdl_toplevel |-> tb.rtl_top,
                       always |-> TRUE, kwargs |-> b_args])
                /\ raised' = IF ok THEN None ELSE "BackendError"
                /\ pc' = after_build(ok)
        /\ UNCHANGED <<rbooks, ret, regression_plan, n_times, idx, previous_rb,
                       console, sel, ld, proc>>

\* a loop that does not move on to the next entry
next_entry_same(i) == i

\* for plan in self.regression_plan: the entry after entry i
next_entry(i) == i + 1

\* the rest of the iteration: sim.test and previous_rb = rb; ok is the
\* outcome of the simulator's test
RunTest(ok) ==
    LET plan == regression_plan[idx]
        rb == plan.runbook
        tb == tbs_get(rbooks[rb], plan.tb_name)
        t_args == merge(rbooks[rb].test_args, tb.test_args)
        res_xml == IF "results_xml" \in DOMAIN t_args THEN t_args["results_xml"]
                   ELSE Path(sim.build_dir.v \o <<plan.tb_name, "_results.xml">>)
    IN  /\ pc = "test"
        /\ IF DOMAIN t_args \cap TestKeywords # {}
           THEN /\ raised' = "TypeError"
                /\ pc' = "exit"
                /\ UNCHANGED <<backend, previous_rb, idx>>
           ELSE /\ backend' = Append(backend,
                      [op |-> "test", entry |-> idx, handle |-> sim,
                       hdl_toplevel |-> tb.rtl_top, hdl_toplevel_lang |-> tb.hdl,
                       test_module |-> tb.tb_top,
                       testcase |-> expand(plan.tests, n_times),
                       results_xml |-> res_xml, kwargs |-> t_args])
                /\ IF ok
                   THEN /\ previous_rb' = rb
                        /\ idx' = next_entry(idx)
                        /\ raised' = None
                        /\ pc' = IF next_entry(idx) > Len(regression_plan)
                                 THEN "exit" ELSE "build"
                   ELSE /\ raised' = "BackendError"
                        /\ pc' = "exit"
                        /\ UNCHANGED <<previous_rb, idx>>
        /\ UNCHANGED <<rbooks, sys_path, ret, regression_plan, n_times, sim,
                       console, sel, ld, proc>>

\* the end of the process after cmd_run returned or raised
MainAfterCommand ==
    /\ pc = "exit"
    /\ ~proc.ended
    /\ proc' = main(raised, Rendering("TE", "I", 1, raised))
    /\ UNCHANGED <<rbooks, sys_path, ret, regression_plan, pc, n_times, idx,
                   previous_rb, sim, backend, console, raised, sel, ld>>

Next ==
    \/ pc = "idle" /\ \E rb \in RunRbIds, criteria \in RunCriteriaSet :
                         AddPlan(rb, criteria)
    \/ MainAfterCommand
    \/ \E n \in 0..MaxTimes : PrintRegression(n)
    \/ \E n \in 0..MaxTimes : RunStart(n)
    \/ \E ok \in BOOLEAN : RunBuild(ok)
    \/ \E ok \in BOOLEAN : RunTest(ok)

Spec == Init /\ [][Next]_vars

(***************************************************************************)
(* A single build_plan call, over every Filtering of CriteriaSet.          *)
(***************************************************************************)
NextPlan ==
    pc = "idle" /\ \E rb \in RbIds, criteria \in CriteriaSet : BuildPlan(rb, criteria)

SpecPlan == Init /\ [][NextPlan]_vars

(***************************************************************************)
(* Filtering.get_valid alone: a Filtering, an attribute and a dataset are  *)
(* chosen, get_valid is applied, then applied again to its own result.     *)
(***************************************************************************)
FilterCriteria == {c \in CriteriaSet : c.tb_names = <<>>}

InitFilter ==
    /\ rbooks = LoadedRunbooks
    /\ sys_path = <<>>
    /\ ret = NoCall
    /\ regression_plan = <<>>
    /\ pc = "idle"
    /\ n_times = 0
    /\ idx = 0
    /\ previous_rb = None
    /\ sim = None
    /\ backend = <<>>
    /\ console = <<>>
    /\ raised = None
    /\ ld = NoLoad
    /\ proc = NoProc
    /\ sel \in {[criteria |-> c, attr |-> a, dataset |-> d, out |-> <<>>] :
                   c \in FilterCriteria, a \in {"tags", "tests"}, d \in Datasets}

Select ==
    /\ Len(sel.out) < 2
    /\ sel' = [sel EXCEPT !.out =
                  Append(@, get_valid(sel.criteria, sel.attr,
                                      IF @ = <<>> THEN sel.dataset ELSE @[Len(@)]))]
    /\ UNCHANGED <<rbooks, sys_path, ret, regression_plan, pc, n_times, idx,
                   previous_rb, sim, backend, console, raised, ld, proc>>

SpecFilter == InitFilter /\ [][Select]_vars

(***************************************************************************)
(* Runbook.load_yaml on the document of a file: the parse, the schema      *)
(* validation, the path validation, the _validate_stages_args calls one by *)
(* one, and the construction of the Runbook.  ld.text is the document as   *)
(* written, ld.doc the dictionary parsed from it, and ld.log keeps the     *)
(* validations attempted.                                                  *)
(***************************************************************************)
InitLoad ==
    /\ rbooks = LoadedRunbooks
    /\ sys_path = <<>>
    /\ ret = NoCall
    /\ regression_plan = <<>>
    /\ pc = "idle"
    /\ n_times = 0
    /\ idx = 0
    /\ previous_rb = None
    /\ sim = None
    /\ backend = <<>>
    /\ console = <<>>
    /\ raised = None
    /\ sel = NoSel
    /\ proc = NoProc
    /\ ld \in {[NoLoad EXCEPT !.pc = "parse", !.text = d] : d \in Docs}

Attempt(stage, of, method) == [stage |-> stage, of |-> of, method |-> method]

\* the step of load_yaml after a validation that raised err
AfterValidation(attempt, err, rb_dict, next_pc, next_k) ==
    /\ ld' = [ld EXCEPT !.log = Append(@, attempt),
                        !.rb_dict = rb_dict,
                        !.raised = err,
                        !.pc = IF err = NoError THEN next_pc ELSE "failed",
                        !.k = next_k]
    /\ UNCHANGED <<rbooks, sys_path, ret, regression_plan, pc, n_times, idx,
                   previous_rb, sim, backend, console, raised, sel,
                   proc>>

\* rb_dict = safe_load(f_handler), for a file that can be read and parsed
LoadParse ==
    /\ ld.pc = "parse"
    /\ ld' = [ld EXCEPT !.pc = "schema", !.doc = safe_load(ld.text),
                        !.rb_dict = safe_load(ld.text)]
    /\ UNCHANGED <<rbooks, sys_path, ret, regression_plan, pc, n_times, idx,
                   previous_rb, sim, backend, console, raised, sel,
                   proc>>

\* _validate_yaml_schema(rb_dict)
LoadSchema ==
    /\ ld.pc = "schema"
    /\ AfterValidation(Attempt("schema", None, None),
                       _validate_yaml_schema(ld.doc), ld.rb_dict, "paths", 0)

\* _validate_paths(rb_dict=rb_dict, yaml_path=str(file_path.parent))
LoadPaths ==
    /\ ld.pc = "paths"
    /\ LET rb_dict == resolve_paths(ld.doc, yaml_path)
       IN  AfterValidation(Attempt("paths", None, None), check_paths(rb_dict),
                           rb_dict, "args", 1)

\* the next _validate_stages_args call
LoadStageArgs ==
    /\ ld.pc = "args"
    /\ LET call == stage_calls(ld.rb_dict)[ld.k]
       IN  AfterValidation(Attempt("args", call.of, call.method),
                           _validate_stages_args(call.args, call.method),
                           ld.rb_dict,
                           IF ld.k = Len(stage_calls(ld.rb_dict))
                           THEN "return" ELSE "args",
                           ld.k + 1)

\* return Runbook(...): info["rtl_top"] raises KeyError for a testbench
\* entry without rtl_top
LoadReturn ==
    /\ ld.pc = "return"
    /\ IF \E k \in 1..Len(ld.rb_dict.tbs) : ~ld.rb_dict.tbs[k].info.rtl_top.given
       THEN ld' = [ld EXCEPT !.pc = "failed", !.raised = KeyError("rtl_top")]
       ELSE ld' = [ld EXCEPT !.pc = "done", !.runbook = MakeRunbook(ld.rb_dict)]
    /\ UNCHANGED <<rbooks, sys_path, ret, regression_plan, pc, n_times, idx,
                   previous_rb, sim, backend, console, raised, sel,
                   proc>>

\* the end of the process after load_yaml raised
MainAfterLoad ==
    /\ ld.pc = "failed"
    /\ ~proc.ended
    /\ proc' = main(ld.raised.type, Rendering("RB", "V", ld.raised.id, ld.raised))
    /\ UNCHANGED <<rbooks, sys_path, ret, regression_plan, pc, n_times, idx,
                   previous_rb, sim, backend, console, raised, sel, ld>>

NextLoad ==
    \/ LoadParse \/ LoadSchema \/ LoadPaths \/ LoadStageArgs \/ LoadReturn
    \/ MainAfterLoad

SpecLoad == InitLoad /\ [][NextLoad]_vars

(***************************************************************************)
(* What the claims are stated with: whole-string matching as a property of *)
(* the text, independent of how the matcher searches.                      *)
(***************************************************************************)
\* text is in the language of rgx: it splits into one piece per atom, a
\* plain atom taking one character it accepts and a starred atom any
\* number of them
Matches(rgx, text) ==
    \E cut \in [0..Len(rgx) -> 0..Len(text)] :
        /\ cut[0] = 0
        /\ cut[Len(rgx)] = Len(text)
        /\ \A i \in 1..Len(rgx) :
              /\ cut[i - 1] <= cut[i]
              /\ rgx[i].star \/ cut[i] = cut[i - 1] + 1
              /\ \A j \in (cut[i - 1] + 1)..cut[i] :
                    rgx[i].c = "." \/ rgx[i].c = text[j]

MatchesAny(regexs, text) == \E k \in 1..Len(regexs) : Matches(regexs[k], text)

InclusionOf(criteria, attr) ==
    IF attr = "tags" THEN criteria.include_tags ELSE criteria.include_tests
ExclusionOf(criteria, attr) ==
    IF attr = "tags" THEN criteria.exclude_tags ELSE criteria.exclude_tests

\* the candidate is selected by the criteria of the attribute
Selected(criteria, attr, text) ==
    /\ InclusionOf(criteria, attr) = <<>> \/ MatchesAny(InclusionOf(criteria, attr), text)
    /\ ~MatchesAny(ExclusionOf(criteria, attr), text)

\* the candidates of list that the criteria select, in the order of list
SelectedOf(criteria, attr, list) ==
    LET Test(text) == Selected(criteria, attr, text) IN SelectSeq(list, Test)

\* the input of the k-th get_valid call of the chain
SelInput(k) == IF k = 1 THEN sel.dataset ELSE sel.out[k - 1]

(***************************************************************************)
(* C4: get_valid(attr, candidates) returns exactly the candidates that     *)
(* fully match at least one include pattern of the attribute when its      *)
(* include list is non-empty, and fully match no exclude pattern of it.    *)
(***************************************************************************)
C4_GetValidExact ==
    \A k \in 1..Len(sel.out) :
        sel.out[k] = SelectedOf(sel.criteria, sel.attr, SelInput(k))

\* the pattern a is given for the tests, the candidates hold a and ab, and
\* only a is returned
C4_Witness ==
    /\ Len(sel.out) >= 1
    /\ sel.attr = "tests"
    /\ sel.criteria.include_tests = <<R_a>>
    /\ sel.dataset = <<T_ab, T_a>>
    /\ sel.out[1] = <<T_a>>

(***************************************************************************)
(* C5: a candidate that fully matches both an include pattern and an       *)
(* exclude pattern of the attribute is never in the result of get_valid.   *)
(***************************************************************************)
C5_ExcludeWins ==
    \A k \in 1..Len(sel.out) : \A j \in 1..Len(sel.out[k]) :
        ~(/\ MatchesAny(InclusionOf(sel.criteria, sel.attr), sel.out[k][j])
          /\ MatchesAny(ExclusionOf(sel.criteria, sel.attr), sel.out[k][j]))

\* a candidate matches an include and an exclude pattern, another one only
\* an include pattern: the call returned, without the first
C5_Witness ==
    /\ Len(sel.out) >= 1
    /\ sel.out[1] # <<>>
    /\ \E j \in 1..Len(sel.dataset) :
          /\ MatchesAny(InclusionOf(sel.criteria, sel.attr), sel.dataset[j])
          /\ MatchesAny(ExclusionOf(sel.criteria, sel.attr), sel.dataset[j])
          /\ ~In(sel.dataset[j], sel.out[1])

(***************************************************************************)
(* C6: filtering is idempotent: get_valid applied to its own result, with  *)
(* the same criteria and attribute, returns that result.                   *)
(***************************************************************************)
C6_Idempotent == Len(sel.out) = 2 => sel.out[2] = sel.out[1]

\* the second call was made on a result that the first call had narrowed,
\* by inclusion and by exclusion, without emptying it
C6_Witness ==
    /\ Len(sel.out) = 2
    /\ InclusionOf(sel.criteria, sel.attr) # <<>>
    /\ ExclusionOf(sel.criteria, sel.attr) # <<>>
    /\ sel.out[1] # <<>>
    /\ Len(sel.out[1]) < Len(sel.dataset)
    /\ sel.out[2] = sel.out[1]

(***************************************************************************)
(* The build_plan call whose outcome ret holds.                            *)
(***************************************************************************)
Returned == ret.called /\ ret.raised = None
RetRunbook == rbooks[ret.rb]
PlanNames(plans) == [k \in 1..Len(plans) |-> plans[k].tb_name]

\* the candidate names: the requested names in the given order, or every
\* testbench of the runbook in runbook order
Candidates(rbook, criteria) ==
    IF criteria.tb_names # <<>> THEN criteria.tb_names
    ELSE [k \in 1..Len(rbook.tbs) |-> rbook.tbs[k].name]

\* the name is a testbench of the runbook with a tag selected by the tag
\* criteria
TagSurvives(rbook, criteria, name) ==
    /\ Contains(rbook, name)
    /\ \E j \in 1..Len(tbs_get(rbook, name).tags) :
          Selected(criteria, "tags", tbs_get(rbook, name).tags[j])

Survivors(rbook, criteria) ==
    LET Test(name) == TagSurvives(rbook, criteria, name)
    IN  SelectSeq(Candidates(rbook, criteria), Test)

\* what test discovery returns for the testbench of a plan
Discovered(rbook, plan) ==
    get_test_names(load_n_import_tb(tbs_get(rbook, plan.tb_name)))

(***************************************************************************)
(* C1: build_plan called with a tb_names holding a name that is not a      *)
(* testbench of the runbook fails with a name error and returns no plan.   *)
(***************************************************************************)
C1_UnknownNameRaises ==
    (/\ ret.called
     /\ \E k \in 1..Len(ret.criteria.tb_names) :
           ~Contains(RetRunbook, ret.criteria.tb_names[k]))
    => (ret.raised = "CocomanNameError" /\ ret.plans = <<>>)

(***************************************************************************)
(* C2: with include_tags and exclude_tags both empty, every candidate of   *)
(* build_plan has a plan in the returned list, untagged testbenches too.   *)
(***************************************************************************)
C2_NoTagFilterKeepsAll ==
    (/\ Returned
     /\ ret.criteria.include_tags = <<>>
     /\ ret.criteria.exclude_tags = <<>>)
    => \A k \in 1..Len(Candidates(RetRunbook, ret.criteria)) :
          Contains(RetRunbook, Candidates(RetRunbook, ret.criteria)[k])
          => In(Candidates(RetRunbook, ret.criteria)[k], PlanNames(ret.plans))

(***************************************************************************)
(* C7: the test list of every returned ExecutionPlan holds exactly the     *)
(* discovered tests of its testbench that the test criteria select, in     *)
(* discovery order.                                                        *)
(***************************************************************************)
C7_TestsAreSelectedDiscovered ==
    Returned =>
        \A k \in 1..Len(ret.plans) :
            ret.plans[k].tests =
                SelectedOf(ret.criteria, "tests", Discovered(RetRunbook, ret.plans[k]))

\* the tests a, ab, b are discovered, the patterns a and b are included,
\* and the plan holds a, b
C7_Witness ==
    /\ Returned
    /\ ret.criteria.include_tests = <<R_a, R_b>>
    /\ \E k \in 1..Len(ret.plans) :
          /\ Discovered(RetRunbook, ret.plans[k]) = <<T_a, T_ab, T_b>>
          /\ ret.plans[k].tests = <<T_a, T_b>>

NoTestCriteria(criteria) ==
    [criteria EXCEPT !.include_tests = <<>>, !.exclude_tests = <<>>]

C9_EmptyPlansKept ==
    Returned =>
        /\ Len(ret.plans) = Len(Survivors(RetRunbook, ret.criteria))
        /\ Len(ret.plans) =
              Len(build_plan(ret.rb, RetRunbook, NoTestCriteria(ret.criteria), <<>>).plans)

\* tests were discovered for a planned testbench, the test criteria
\* selected none of them, and its plan is returned with an empty test list
C9_Witness ==
    /\ Returned
    /\ \E k \in 1..Len(ret.plans) :
          /\ Discovered(RetRunbook, ret.plans[k]) # <<>>
          /\ ret.plans[k].tests = <<>>

(***************************************************************************)
(* The calls run_regression made on the runner.                            *)
(***************************************************************************)
EntryOf(call) == regression_plan[call.entry]

\* each of tests, n times in a row, in the order of tests
Expanded(tests, n) ==
    [p \in 1..(Len(tests) * n) |-> tests[((p - 1) \div n) + 1]]

(***************************************************************************)
(* C3: run_regression makes no build and no test call for a plan entry     *)
(* whose test list expanded by the repetition count is empty.              *)
(***************************************************************************)
C3_EmptyEntrySkipped ==
    \A k \in 1..Len(backend) :
        Len(EntryOf(backend[k]).tests) > 0 /\ n_times > 0

(***************************************************************************)
(* C10: the test-case list passed to the test operation, and the list the  *)
(* preview shows, is every test of the plan entry repeated n_times in a    *)
(* row, in the order of the entry; its length is the number of tests times *)
(* n_times.                                                                *)
(***************************************************************************)
C10_RepetitionExpansion ==
    /\ \A k \in 1..Len(backend) :
          backend[k].op = "test" =>
              /\ backend[k].testcase = Expanded(EntryOf(backend[k]).tests, n_times)
              /\ Len(backend[k].testcase) = Len(EntryOf(backend[k]).tests) * n_times
    /\ (pc = "previewed" /\ regression_plan # <<>>) =>
          /\ Len(console) = 1 + 2 * Len(regression_plan)
          /\ \A e \in 1..Len(regression_plan) :
                /\ console[2 * e + 1].tb_name = regression_plan[e].tb_name
                /\ console[2 * e + 1].tests = Expanded(regression_plan[e].tests, n_times)
                /\ console[2 * e + 1].kind =
                      IF Len(regression_plan[e].tests) * n_times = 0
                      THEN "No tests to run" ELSE "tests"

\* three repetitions of the tests a, ab were previewed and then passed to
\* the test operation as a, a, a, ab, ab, ab
C10_Witness ==
    /\ n_times = 3
    /\ \E k \in 1..Len(backend) :
          /\ backend[k].op = "test"
          /\ EntryOf(backend[k]).tests = <<T_a, T_ab>>
          /\ backend[k].testcase = <<T_a, T_a, T_a, T_ab, T_ab, T_ab>>
    /\ \E j \in 1..Len(console) :
          console[j].tests = <<T_a, T_a, T_a, T_ab, T_ab, T_ab>>

(***************************************************************************)
(* C11: a dry run, that is build_plan followed by print_regression, never  *)
(* invokes the build or the test operation of the simulation backend: no   *)
(* step that accumulates a plan or previews it adds a backend invocation   *)
(* or acquires a backend handle.                                           *)
(***************************************************************************)
C11_DryRunNoBackend ==
    [][(pc = "idle" /\ pc' \in {"idle", "previewed"})
          => (backend' = backend /\ sim' = sim)]_vars

\* a plan with tests to run was previewed with a positive repetition
\* count, and the backend was not invoked
C11_Witness ==
    /\ pc = "previewed"
    /\ n_times > 0
    /\ \E j \in 1..Len(console) : console[j].kind = "tests"
    /\ backend = <<>>
    /\ sim = None

(***************************************************************************)
(* C12: in run_regression the backend handle is acquired, and the include  *)
(* directories of the runbook registered, exactly for the first entry and  *)
(* for an entry whose runbook differs from the runbook of the entry before *)
(* it; every build and test invocation uses a handle bound to the          *)
(* simulator of the runbook of its entry, and the include directories of   *)
(* that runbook are registered when it is made.                            *)
(***************************************************************************)
RunbookOf(e) == rbooks[regression_plan[e].runbook]

C12_HandleFollowsRunbook ==
    \A k \in 1..Len(backend) :
        LET e == backend[k].entry
        IN  /\ backend[k].handle.sim = RunbookOf(e).sim
            /\ \A j \in 1..Len(RunbookOf(e).include) :
                   In(str(RunbookOf(e).include[j]), sys_path)
            /\ backend[k].op = "build" =>
                   (backend[k].acquired <=>
                       (e = 1 \/ RunbookOf(e) # RunbookOf(e - 1)))

\* three entries of the runbooks RB1, RB2, RB1 were run: the third entry
\* was built and tested with a handle acquired anew for the simulator of
\* RB1, the second with one for the simulator of RB2
C12_Witness ==
    /\ Len(regression_plan) = 3
    /\ regression_plan[1].runbook = "RB1"
    /\ regression_plan[2].runbook = "RB2"
    /\ regression_plan[3].runbook = "RB1"
    /\ Len(backend) = 6
    /\ backend[3].acquired /\ backend[3].handle.sim = "verilator"
    /\ backend[5].acquired /\ backend[5].handle.sim = "icarus"
    /\ backend[6].op = "test" /\ backend[6].handle.sim = "icarus"

\* two entries of the same runbook were run one after the other, and the
\* second was built with the handle of the first
C12_WitnessReuse ==
    /\ Len(backend) >= 3
    /\ backend[3].op = "build"
    /\ ~backend[3].acquired
    /\ backend[3].handle = backend[1].handle

(***************************************************************************)
(* C13: the backend invocations of run_regression are build, test, build,  *)
(* test, ...: every test follows the build of the same entry, every build   *)
(* is made with forced rebuild, and the entries are taken in the order of  *)
(* the accumulated plan, none twice and none before an earlier one.        *)
(***************************************************************************)
C13_SequentialInPlanOrder ==
    \A k \in 1..Len(backend) :
        /\ backend[k].entry \in 1..Len(regression_plan)
        /\ IF k % 2 = 1
           THEN /\ backend[k].op = "build"
                /\ backend[k].always = TRUE
                /\ k > 1 => backend[k].entry > backend[k - 1].entry
           ELSE /\ backend[k].op = "test"
                /\ backend[k].entry = backend[k - 1].entry

\* a plan of three entries was run to its end: six invocations, the build
\* and the test of entry 1, then of entry 2, then of entry 3
C13_Witness ==
    /\ Len(regression_plan) = 3
    /\ pc = "exit"
    /\ raised = None
    /\ [k \in 1..Len(backend) |-> <<backend[k].op, backend[k].entry>>]
          = << <<"build", 1>>, <<"test", 1>>, <<"build", 2>>, <<"test", 2>>,
               <<"build", 3>>, <<"test", 3>> >>

(***************************************************************************)
(* C14: the extra parameters of every build (test) invocation are the      *)
(* merge of the build (test) map of the runbook and the one of the         *)
(* testbench: the keys are those of both maps, a key of the testbench map  *)
(* has the value of the testbench, and a key of the runbook map alone has  *)
(* the value of the runbook.                                               *)
(***************************************************************************)
TbOf(e) == tbs_get(RunbookOf(e), regression_plan[e].tb_name)
GlobalArgs(call) ==
    IF call.op = "build" THEN RunbookOf(call.entry).build_args
    ELSE RunbookOf(call.entry).test_args
TbArgs(call) ==
    IF call.op = "build" THEN TbOf(call.entry).build_args
    ELSE TbOf(call.entry).test_args

C14_MergedParameters ==
    \A k \in 1..Len(backend) :
        LET g == GlobalArgs(backend[k])
            t == TbArgs(backend[k])
            kw == backend[k].kwargs
        IN  /\ DOMAIN kw = DOMAIN g \cup DOMAIN t
            /\ \A key \in DOMAIN t : kw[key] = t[key]
            /\ \A key \in DOMAIN g \ DOMAIN t : kw[key] = g[key]

\* tbA of RB1 was built and tested: defines is G for the runbook and A for
\* the testbench, waves is a build parameter of the runbook only and a test
\* parameter of the testbench only
C14_Witness ==
    \E k \in 1..Len(backend) :
        /\ backend[k].op = "build"
        /\ regression_plan[backend[k].entry].runbook = "RB1"
        /\ regression_plan[backend[k].entry].tb_name = "tbA"
        /\ GlobalArgs(backend[k])["defines"] = Str("G")
        /\ backend[k].kwargs = ("defines" :> Str("A")) @@ ("waves" :> Str("on"))
        /\ k < Len(backend)
        /\ backend[k + 1].op = "test"
        /\ backend[k + 1].kwargs = ("seed" :> Str("1")) @@ ("waves" :> Str("on"))

(***************************************************************************)
(* C15: every test invocation is given the results_xml value of the merged *)
(* test parameters when there is one, and otherwise the file               *)
(* <tb_name>_results.xml of the build directory of the handle; and an      *)
(* entry whose merged test parameters hold results_xml has its test        *)
(* invoked once its build has succeeded.                                   *)
(***************************************************************************)
MergedTestArgs(e) == merge(RunbookOf(e).test_args, TbOf(e).test_args)

C15_ResultsLocation ==
    /\ \A k \in 1..Len(backend) :
          backend[k].op = "test" =>
              backend[k].results_xml =
                  IF "results_xml" \in DOMAIN MergedTestArgs(backend[k].entry)
                  THEN MergedTestArgs(backend[k].entry)["results_xml"]
                  ELSE Path(backend[k].handle.build_dir.v
                            \o <<regression_plan[backend[k].entry].tb_name,
                                 "_results.xml">>)
    /\ (/\ pc = "exit"
        /\ backend # <<>>
        /\ backend[Len(backend)].op = "build"
        /\ "results_xml" \in DOMAIN MergedTestArgs(backend[Len(backend)].entry))
       => raised = "BackendError"

(***************************************************************************)
(* The load_yaml call whose progress ld holds.                             *)
(***************************************************************************)
Loaded == ld.runbook.made
LoadFailed == ld.pc = "failed"
Range(seq) == {seq[k] : k \in 1..Len(seq)}

(***************************************************************************)
(* C16: in every Runbook that load_yaml produces, no key of a build        *)
(* parameter map, of the runbook or of a testbench, is sources,            *)
(* hdl_toplevel or always, and no key of a test parameter map is           *)
(* hdl_toplevel, hdl_toplevel_lang, test_module, testcase or results_xml:  *)
(* the keywords run_regression passes are disjoint from the user's keys.   *)
(***************************************************************************)
C16_NoReservedKeyLoaded ==
    Loaded =>
        /\ Range(ld.runbook.build_args) \cap BuildKeywords = {}
        /\ Range(ld.runbook.test_args) \cap TestKeywords = {}
        /\ \A k \in 1..Len(ld.runbook.tbs) :
               /\ Range(ld.runbook.tbs[k].build_args) \cap BuildKeywords = {}
               /\ Range(ld.runbook.tbs[k].test_args) \cap TestKeywords = {}

(***************************************************************************)
(* C17: a _validate_stages_args call succeeds exactly when every key of    *)
(* the map is a legal parameter of the backend operation; when it fails,   *)
(* its RbValidationError names every illegal key of the map, with the      *)
(* allowed parameters.                                                     *)
(***************************************************************************)
LegalKeys(sim_method) == Range(SimulatorArgs(sim_method)) \ ExcludedArgs
LastAttempt == ld.log[Len(ld.log)]
LastCall == stage_calls(ld.rb_dict)[ld.k - 1]

C17_EveryIllegalKeyNamed ==
    (ld.log # <<>> /\ LastAttempt.stage = "args") =>
        LET illegal == Range(LastCall.args) \ LegalKeys(LastCall.method)
        IN  /\ ld.raised = NoError <=> illegal = {}
            /\ illegal # {} =>
                   /\ ld.raised.type = "RbValidationError"
                   /\ Range(ld.raised.keys) = illegal
                   /\ Range(ld.raised.allowed) = LegalKeys(LastCall.method)

(***************************************************************************)
(* The document of the load_yaml call, looked at on its own.               *)
(***************************************************************************)
\* the indices of the source table of the document
TableIndices(doc) == {doc.srcs.v[k].i : k \in 1..Len(doc.srcs.v)}

\* the testbenches that refer to unregistered indices, each with all of
\* those indices in the order of its list
Offending(doc) ==
    {[tb |-> doc.tbs[k].name,
      unreg |-> SelectSeq(doc.tbs[k].info.srcs.v,
                          LAMBDA i : i \notin TableIndices(doc))] :
        k \in {j \in 1..Len(doc.tbs) :
                  Range(doc.tbs[j].info.srcs.v) \ TableIndices(doc) # {}}}

\* the resolved paths of the document that are not what they must be: a
\* source that is no file, a testbench path that is no directory, an
\* include path that does not exist
Resolved(p) == Path(IF p # <<>> /\ Head(p) = "/" THEN p ELSE <<"/", "w">> \o p)
BadPaths(doc) ==
    {str(Resolved(doc.srcs.v[k].p)) :
        k \in {j \in 1..Len(doc.srcs.v) :
                  KindOf(Resolved(doc.srcs.v[j].p).v) # "file"}}
    \cup {str(Resolved(doc.tbs[k].info.path)) :
        k \in {j \in 1..Len(doc.tbs) :
                  KindOf(Resolved(doc.tbs[j].info.path).v) # "dir"}}
    \cup {str(Resolved(doc.include.v[k])) :
        k \in {j \in 1..Len(doc.include.v) :
                  KindOf(Resolved(doc.include.v[j]).v) = "missing"}}

LoadEnded == ld.pc \in {"failed", "done"}
Attempted(stage) == \E k \in 1..Len(ld.log) : ld.log[k].stage = stage
\* the document passed the schema validation and its paths were validated
PathsChecked == Attempted("paths")

(***************************************************************************)
(* C18, as stated: every source index of every testbench of a produced     *)
(* Runbook is a key of its source table; and a load of a document, valid   *)
(* for the schema, in which some testbench refers to an unregistered index *)
(* fails with a RbValidationError that maps every such testbench to all of *)
(* its unregistered indices.                                               *)
(***************************************************************************)
IntegrityOf(runbook) ==
    \A k \in 1..Len(runbook.tbs) :
        Range(runbook.tbs[k].srcs) \subseteq
            {runbook.srcs[j].i : j \in 1..Len(runbook.srcs)}

C18_UnregisteredAlwaysReported ==
    /\ Loaded => IntegrityOf(ld.runbook)
    /\ (PathsChecked /\ Offending(ld.doc) # {}) =>
          /\ LoadFailed
          /\ ld.raised.type = "RbValidationError"
          /\ Range(ld.raised.unreg) = Offending(ld.doc)

(***************************************************************************)
(* C18, amended: every source index of every testbench of a produced       *)
(* Runbook is a key of its source table; a load of a document in which     *)
(* some testbench refers to an unregistered index fails; when the document *)
(* is valid for the schema and all its paths are valid, it fails with the  *)
(* RbValidationError that maps every such testbench to all of its          *)
(* unregistered indices, and when it is valid for the schema and some path *)
(* is not valid, with the non-existent paths error, without the indices.   *)
(***************************************************************************)
C18_UnregisteredReported ==
    /\ Loaded => IntegrityOf(ld.runbook)
    /\ (LoadEnded /\ Offending(ld.doc) # {}) => LoadFailed
    /\ (PathsChecked /\ Offending(ld.doc) # {}) =>
          IF BadPaths(ld.doc) = {}
          THEN /\ LoadFailed
               /\ ld.raised.type = "RbValidationError"
               /\ ld.raised.id = 2
               /\ Range(ld.raised.unreg) = Offending(ld.doc)
               /\ Len(ld.raised.unreg) = Cardinality(Offending(ld.doc))
          ELSE /\ LoadFailed
               /\ ld.raised.id = 1
               /\ ld.raised.unreg = <<>>

\* the source table holds the index 0 only, tbA refers to 0 and 2, tbB
\* to 2, 0 and 4: the load failed with the report tbA: 2, tbB: 2, 4
C18_Witness ==
    /\ LoadFailed
    /\ TableIndices(ld.doc) = {0}
    /\ ld.raised.id = 2
    /\ ld.raised.unreg = <<[tb |-> "tbA", unreg |-> <<2>>],
                           [tb |-> "tbB", unreg |-> <<2, 4>>]>>

(***************************************************************************)
(* C19, as stated: the path validation of a document fails exactly when    *)
(* some source path is no existing file, some testbench path is no         *)
(* existing directory or some include path does not exist; the error then  *)
(* carries every such path of the three groups.                            *)
(***************************************************************************)
PathsFailed == PathsChecked /\ LoadFailed /\ LastAttempt.stage = "paths"

C19_PathsFailIffBadPath ==
    PathsChecked =>
        /\ PathsFailed <=> BadPaths(ld.doc) # {}
        /\ BadPaths(ld.doc) # {} => Range(ld.raised.paths) = BadPaths(ld.doc)

(***************************************************************************)
(* C19, amended: the path validation of a document fails with the          *)
(* non-existent paths error exactly when some source path is no existing   *)
(* file, some testbench path is no existing directory or some include path *)
(* does not exist, and the error then carries every such path of the three *)
(* groups; with all paths valid it fails only when a testbench refers to   *)
(* an unregistered source index, with the unregistered indices error.      *)
(***************************************************************************)
C19_BadPathsAllReported ==
    PathsChecked =>
        /\ (PathsFailed /\ ld.raised.id = 1) <=> BadPaths(ld.doc) # {}
        /\ BadPaths(ld.doc) # {} =>
               /\ ld.raised.type = "RbValidationError"
               /\ Range(ld.raised.paths) = BadPaths(ld.doc)
        /\ (PathsFailed /\ ld.raised.id # 1) <=>
               (BadPaths(ld.doc) = {} /\ Offending(ld.doc) # {})

\* a source that is a directory, a source that does not exist, a
\* testbench path that is a file, and an include path that does not exist:
\* the load failed with the four paths in its error
C19_Witness ==
    /\ PathsFailed
    /\ ld.raised.id = 1
    /\ \E a, b, c, d \in Range(ld.raised.paths) :
          /\ a = str(Path(<<"/", "w", "d0">>))
          /\ b = str(Path(<<"/", "w", "nofile">>))
          /\ c = str(Path(<<"/", "w", "f0">>))
          /\ d = str(Path(<<"/", "none">>))
    /\ \E k \in 1..Len(ld.doc.tbs) : ld.doc.tbs[k].info.path = <<"f0">>

(***************************************************************************)
(* C20: load_yaml validates in the order schema, paths, test parameters    *)
(* of the runbook, build parameters of the runbook, then the test and the  *)
(* build parameters of every testbench in turn; the first validation that  *)
(* fails ends the load with its error, nothing is validated after it and   *)
(* no Runbook is produced; a Runbook is produced only when every           *)
(* validation was made and succeeded.                                      *)
(***************************************************************************)
ExpectedOrder(doc) ==
    <<Attempt("schema", None, None), Attempt("paths", None, None),
      Attempt("args", "general", "test"), Attempt("args", "general", "build")>>
    \o [j \in 1..(2 * Len(doc.tbs)) |->
           Attempt("args", doc.tbs[(j + 1) \div 2].name,
                   IF j % 2 = 1 THEN "test" ELSE "build")]

\* the parameter map of the document that an attempt validates
MapOf(doc, attempt) ==
    LET holder == IF attempt.of = "general" THEN doc
                  ELSE (CHOOSE tb \in Range(doc.tbs) : tb.name = attempt.of).info
    IN  IF attempt.method = "test" THEN holder.test_args.v ELSE holder.build_args.v

\* the validation would accept the document
Passes(doc, attempt) ==
    CASE attempt.stage = "schema" -> _validate_yaml_schema(doc) = NoError
      [] attempt.stage = "paths" -> BadPaths(doc) = {} /\ Offending(doc) = {}
      [] OTHER -> Range(MapOf(doc, attempt)) \subseteq LegalKeys(attempt.method)

C20_FailFastInOrder ==
    LET order == ExpectedOrder(ld.doc)
        n == Len(ld.log)
    IN  /\ n <= Len(order)
        /\ ld.log = SubSeq(order, 1, n)
        /\ \A k \in 1..(n - 1) : Passes(ld.doc, order[k])
        /\ n > 0 => (Passes(ld.doc, order[n]) <=> ld.raised.type # "RbValidationError")
        /\ LoadFailed => ~Loaded
        /\ Loaded => (n = Len(order) /\ \A k \in 1..n : Passes(ld.doc, order[k]))

\* the build parameters of the runbook and the maps of a testbench hold
\* illegal keys: the load ended at the fourth validation, the one of the
\* build parameters of the runbook, without a Runbook
C20_Witness ==
    /\ LoadFailed
    /\ ~Loaded
    /\ Len(ld.log) = 4
    /\ LastAttempt = Attempt("args", "general", "build")
    /\ ld.raised.id = 3
    /\ Len(ExpectedOrder(ld.doc)) = 8
    /\ ~Passes(ld.doc, ExpectedOrder(ld.doc)[5])
    /\ ~Passes(ld.doc, ExpectedOrder(ld.doc)[8])

(***************************************************************************)
(* C21: a document that is valid in every other respect and whose          *)
(* testbench entry gives path, tb_top and hdl only, leaving out rtl_top,   *)
(* tags, srcs, build_args and test_args, loads into a Runbook in which     *)
(* each of those fields of that Testbench is empty.                        *)
(***************************************************************************)
\* the entry gives the required fields only
RequiredOnly(info) ==
    /\ ~info.rtl_top.given
    /\ ~info.tags.given
    /\ ~info.srcs.given
    /\ ~info.build_args.given
    /\ ~info.test_args.given

\* every validation of load_yaml accepts the document
ValidDocument(doc) ==
    \A k \in 1..Len(ExpectedOrder(doc)) : Passes(doc, ExpectedOrder(doc)[k])

C21_RequiredFieldsOnlyLoads ==
    (/\ LoadEnded
     /\ ValidDocument(ld.doc)
     /\ \E k \in 1..Len(ld.doc.tbs) : RequiredOnly(ld.doc.tbs[k].info))
    => /\ Loaded
       /\ \A k \in 1..Len(ld.doc.tbs) :
              RequiredOnly(ld.doc.tbs[k].info) =>
                  /\ ld.runbook.tbs[k].name = ld.doc.tbs[k].name
                  /\ ld.runbook.tbs[k].rtl_top = <<>>
                  /\ ld.runbook.tbs[k].tags = <<>>
                  /\ ld.runbook.tbs[k].srcs = <<>>
                  /\ ld.runbook.tbs[k].build_args = <<>>
                  /\ ld.runbook.tbs[k].test_args = <<>>

(***************************************************************************)
(* C22: a load of a document in which two testbench entries are written    *)
(* under the same name fails at the schema validation; it never produces   *)
(* a Runbook that keeps only one of the two entries.                       *)
(***************************************************************************)
DuplicateNames(text) ==
    \E i, j \in 1..Len(text.tbs) : i # j /\ text.tbs[i].name = text.tbs[j].name

C22_DuplicateNameFails ==
    (LoadEnded /\ DuplicateNames(ld.text)) =>
        /\ ~Loaded
        /\ LoadFailed
        /\ ld.raised.type = "RbValidationError"
        /\ ld.raised.id = 0
        /\ LastAttempt.stage = "schema"

(***************************************************************************)
(* C23: load_includes is idempotent on the module search registry: from    *)
(* every registry the program reaches and for every runbook, a call keeps  *)
(* the entries of the registry in place and appends each include directory *)
(* that is not registered yet exactly once, a second call with the same    *)
(* runbook changes nothing; and after any sequence of calls no include     *)
(* directory is registered more than once.                                 *)
(***************************************************************************)
\* how many entries of list equal x
Count(x, list) == Cardinality({k \in 1..Len(list) : list[k] = x})

\* the include directories of the runbooks, as registered
IncludeDirs ==
    UNION {{str(rbooks[r].include[k]) : k \in 1..Len(rbooks[r].include)} : r \in RbIds}

C23_LoadIncludesIdempotent ==
    /\ \A d \in IncludeDirs : Count(d, sys_path) <= 1
    /\ \A r \in RbIds :
          LET once == load_includes(rbooks[r], sys_path)
              twice == load_includes(rbooks[r], once)
              added == SubSeq(once, Len(sys_path) + 1, Len(once))
          IN  /\ twice = once
              /\ Len(once) >= Len(sys_path)
              /\ SubSeq(once, 1, Len(sys_path)) = sys_path
              /\ \A k \in 1..Len(added) :
                    /\ Count(added[k], once) = 1
                    /\ added[k] \in {str(rbooks[r].include[j]) :
                                        j \in 1..Len(rbooks[r].include)}
              /\ \A j \in 1..Len(rbooks[r].include) :
                    Count(str(rbooks[r].include[j]), once) = 1

\* entries of RB1, RB2 and RB1 again were planned and run, so that
\* load_includes was called six times, for runbooks that share the
\* directory w/inc: the registry holds w/inc and v/inc once each, in the
\* order of their first registration
C23_Witness ==
    /\ Len(regression_plan) = 3
    /\ regression_plan[1].runbook = "RB1"
    /\ regression_plan[2].runbook = "RB2"
    /\ regression_plan[3].runbook = "RB1"
    /\ Len(backend) >= 5
    /\ backend[1].acquired /\ backend[3].acquired /\ backend[5].acquired
    /\ SelectSeq(sys_path, LAMBDA p : p \in IncludeDirs)
          = <<str(Path(<<"w", "inc">>)), str(Path(<<"v", "inc">>))>>

(***************************************************************************)
(* C24: a build_plan call in which the module of some candidate that       *)
(* survives the tag filtering cannot be imported ends with the import      *)
(* error and hands no plan to its caller, not even for the candidates      *)
(* discovered before the failing one: the accumulated regression plan is   *)
(* after the call what it was before it.                                   *)
(***************************************************************************)
\* the module of some surviving candidate cannot be imported
DiscoveryFails(rbook, criteria) ==
    \E k \in 1..Len(Survivors(rbook, criteria)) :
        ~TbModule(LET p == tbs_get(rbook, Survivors(rbook, criteria)[k]).path.v
                  IN  p[Len(p)]).importable

C24_FailedDiscoveryAborts ==
    [][\A rb \in RunRbIds, criteria \in RunCriteriaSet :
          (pc = "idle" /\ AddPlan(rb, criteria)) =>
              IF DiscoveryFails(rbooks[rb], criteria)
              THEN /\ raised' = "TbEnvImportError"
                   /\ regression_plan' = regression_plan
                   /\ pc' = "exit"
              ELSE raised' = None]_vars

\* plans of RB1 were accumulated, then build_plan was called for RB2: the
\* module of tbA, in dirA2, was imported, the one of tbD could not be, and the
\* call ended with the import error, the plan still holding the entries of
\* RB1 only
C24_Witness ==
    /\ pc = "exit"
    /\ raised = "TbEnvImportError"
    /\ regression_plan # <<>>
    /\ \A k \in 1..Len(regression_plan) : regression_plan[k].runbook = "RB1"
    /\ In(str(Path(<<"w", "dirA2">>)), sys_path)
    /\ In(str(Path(<<"w", "dirD">>)), sys_path)
    /\ backend = <<>>

(***************************************************************************)
(* C25: a failure of the build or of the test operation of the backend     *)
(* for a plan entry leaves run_regression at once: the failing invocation  *)
(* is the last one made, no operation is invoked twice for an entry, the   *)
(* test of an entry whose build failed is not invoked, and nothing is      *)
(* invoked for the entries after it.                                       *)
(***************************************************************************)
C25_BackendFailurePropagates ==
    /\ \A i, j \in 1..Len(backend) :
          (i < j) => ~(backend[i].op = backend[j].op
                       /\ backend[i].entry = backend[j].entry)
    /\ raised = "BackendError" =>
          /\ pc = "exit"
          /\ backend # <<>>
          /\ LET failed == backend[Len(backend)]
             IN  /\ \A j \in 1..Len(backend) : backend[j].entry <= failed.entry
                 /\ failed.op = "build" =>
                       ~\E j \in 1..Len(backend) :
                           backend[j].op = "test" /\ backend[j].entry = failed.entry
                 /\ Len(backend) = 2 * (failed.entry - 1)
                                   + (IF failed.op = "build" THEN 1 ELSE 2)

\* the build of the second of three entries failed: the invocations are
\* the build and the test of the first entry and the build of the second
C25_Witness ==
    /\ Len(regression_plan) = 3
    /\ raised = "BackendError"
    /\ pc = "exit"
    /\ [k \in 1..Len(backend) |-> <<backend[k].op, backend[k].entry>>]
          = << <<"build", 1>>, <<"test", 1>>, <<"build", 2>> >>

(***************************************************************************)
(* C26: when load_yaml raised a domain error, here a RbValidationError,    *)
(* main catches it and prints its rendering, the area and the prefix of    *)
(* its class with its number and its message, without a traceback, and the *)
(* process ends with a status other than 0.                                *)
(***************************************************************************)
C26_DomainErrorExitsNonZero ==
    (proc.ended /\ ld.raised.type \in DomainErrors) =>
        /\ proc.stdout = <<Rendering("RB", "V", ld.raised.id, ld.raised)>>
        /\ ~proc.uncaught
        /\ proc.status # 0

(***************************************************************************)
(* C27: the Orchestrator only reads the Runbook: no build_plan,            *)
(* print_regression or run_regression step changes a runbook, its source   *)
(* table, include list, parameter maps or testbench records; the entries   *)
(* of the accumulated plan are only ever added to, and no step of a        *)
(* preview or of an execution alters them.                                 *)
(***************************************************************************)
C27_RunbookReadOnly ==
    [][/\ rbooks' = rbooks
       /\ Len(regression_plan') >= Len(regression_plan)
       /\ SubSeq(regression_plan', 1, Len(regression_plan)) = regression_plan
       /\ (pc # "idle" \/ pc' # "idle") => regression_plan' = regression_plan]_vars

\* tbA of RB1 was planned, previewed and run to the end with two
\* repetitions: it was built with defines from the testbench, its tests
\* were expanded, and the runbooks are those that were loaded
C27_Witness ==
    /\ pc = "exit"
    /\ raised = None
    /\ console # <<>>
    /\ n_times = 2
    /\ rbooks = LoadedRunbooks
    /\ \E k \in 1..Len(backend) :
          /\ backend[k].op = "build"
          /\ regression_plan[backend[k].entry].runbook = "RB1"
          /\ regression_plan[backend[k].entry].tb_name = "tbA"
          /\ backend[k].kwargs # rbooks["RB1"].build_args
          /\ k < Len(backend)
          /\ backend[k + 1].testcase # regression_plan[backend[k].entry].tests
          /\ regression_plan[backend[k].entry].tests = <<T_a, T_ab>>

(***************************************************************************)
(* C28: the source list of every build invocation holds exactly the paths  *)
(* of the entries of the source table of the runbook whose index the       *)
(* testbench refers to, each once however often the index is listed, in    *)
(* the order of the source table; a testbench that refers to no index is   *)
(* built with the empty list.                                              *)
(***************************************************************************)
\* the position in the source table of the entry with the path
TablePosition(table, path) == CHOOSE j \in 1..Len(table) : table[j].p = path

C28_SourcesInTableOrder ==
    \A k \in 1..Len(backend) :
        backend[k].op = "build" =>
            LET table == RunbookOf(backend[k].entry).srcs
                refs == Range(TbOf(backend[k].entry).srcs)
                sources == backend[k].sources
            IN  /\ Range(sources) =
                      {table[j].p : j \in {i \in 1..Len(table) : table[i].i \in refs}}
                /\ \A a, b \in 1..Len(sources) :
                      a < b => TablePosition(table, sources[a])
                                   < TablePosition(table, sources[b])
                /\ refs = {} => sources = <<>>

\* tbA of RB1 lists the indices 1, 0, 1 and was built with the sources
\* r0.v, r1.v; tbA of RB2 lists no index and was built with no source
C28_Witness ==
    /\ \E k \in 1..Len(backend) :
          /\ backend[k].op = "build"
          /\ TbOf(backend[k].entry).srcs = <<1, 0, 1>>
          /\ backend[k].sources = <<Path(<<"w", "r0.v">>), Path(<<"w", "r1.v">>)>>
    /\ \E k \in 1..Len(backend) :
          /\ backend[k].op = "build"
          /\ RunbookOf(backend[k].entry).srcs # <<>>
          /\ TbOf(backend[k].entry).srcs = <<>>
          /\ backend[k].sources = <<>>

(***************************************************************************)
(* C29: preview and execution agree: when a plan was previewed and then    *)
(* run with the same repetition count, the pairs of testbench name and     *)
(* test-case list passed to the test operation, for the entries whose      *)
(* expanded list is not empty, are at every moment of the run the first of *)
(* the pairs the preview reported, and all of them once the run has ended  *)
(* without a failure.                                                      *)
(***************************************************************************)
PreviewPairs ==
    LET lines == SelectSeq(console, LAMBDA line : line.kind = "tests")
    IN  [k \in 1..Len(lines) |-> <<lines[k].tb_name, lines[k].tests>>]

RunPairs ==
    LET calls == SelectSeq(backend,
                     LAMBDA call : call.op = "test" /\ call.testcase # <<>>)
    IN  [k \in 1..Len(calls) |->
            <<regression_plan[calls[k].entry].tb_name, calls[k].testcase>>]

C29_PreviewAgreesWithRun ==
    (console # <<>> /\ pc \in {"build", "test", "exit"}) =>
        /\ Len(RunPairs) <= Len(PreviewPairs)
        /\ RunPairs = SubSeq(PreviewPairs, 1, Len(RunPairs))
        /\ (pc = "exit" /\ raised = None) => RunPairs = PreviewPairs

\* tbA of RB1, tbA of RB2, which has no test, and tbA of RB1 again were
\* previewed and run to the end with two repetitions: the preview and the
\* run both give tbA: a, a, ab, ab twice, and nothing for the entry without
\* tests, whose test operation was invoked with the empty list
C29_Witness ==
    /\ pc = "exit"
    /\ raised = None
    /\ n_times = 2
    /\ Len(regression_plan) = 3
    /\ Len(backend) = 6
    /\ backend[4].testcase = <<>>
    /\ \E j \in 1..Len(console) : console[j].kind = "No tests to run"
    /\ PreviewPairs = << <<"tbA", <<T_a, T_a, T_ab, T_ab>> >>,
                         <<"tbA", <<T_a, T_a, T_ab, T_ab>> >> >>
    /\ RunPairs = PreviewPairs

(***************************************************************************)
(* C30: test discovery keeps the module search registry free of            *)
(* duplicates: however often load_n_import_tb is called, every testbench   *)
(* directory and every parent directory is registered at most once, so     *)
(* that the registry has as many entries as distinct directories.          *)
(***************************************************************************)
\* the testbench directories of the runbooks and their parents, as
\* registered
TbDirs ==
    UNION {UNION {{str(rbooks[r].tbs[k].path), str(parent(rbooks[r].tbs[k].path))} :
                     k \in 1..Len(rbooks[r].tbs)} : r \in RbIds}

C30_RegistryFreeOfDuplicates ==
    /\ \A d \in TbDirs : Count(d, sys_path) <= 1
    /\ Len(sys_path) = Cardinality(Range(sys_path))

====
